---- MODULE Spec2Model ----
(***************************************************************************)
(* Model of the Geode bridge (package geode_bridge): the plugin manager    *)
(* that builds the tool catalog, the construction of GeodeBridge, and the  *)
(* tool-calling loop of GeodeBridge.send_message.                          *)
(***************************************************************************)
EXTENDS Integers, Sequences, FiniteSets, TLC

(***************************************************************************)
(* Bounds of the model.                                                    *)
(***************************************************************************)
MaxFiles == 2          \* plugin files in the plugin directory
MaxPluginTools == 1    \* tools one plugin declares
MaxParts == 2          \* parts of one model response
MaxLoads == 2          \* calls of load_plugins / reload_plugins
MaxTime == 2           \* operations of one chat history, each at its own time
MaxMessages == 1       \* messages added to one session
MaxKept == 2           \* largest max_sessions a history manager is built with
MaxThreads == 2        \* threads calling the file operations
MaxWorkers == 3        \* workers one chat view starts
MaxSends == 2          \* send_message calls on one AI client

(***************************************************************************)
(* Program constants.                                                      *)
(***************************************************************************)
max_iterations == 10

\* Owner of the five built-in vault tools (ObsidianTools); plugin tools are
\* owned by the index of the plugin file whose instance declared them.
Obsidian == 0

BuiltinNames ==
    <<"list_files", "list_all_files", "read_file", "create_or_update_file", "delete_file">>

PluginNames == {"p1", "p2"}
PluginToolNames == {"t1", "read_file"}

\* What importing and instantiating one plugin file gives:
\*   "ok"          a class with the three methods, get_tools returns a list
\*   "tools_raise" the same, but get_tools raises
\*   "broken"      the import fails, or no class qualifies
ToolLists == UNION {[1..n -> PluginToolNames] : n \in 0..MaxPluginTools}

PluginFiles ==
    {[kind |-> "ok", name |-> n, tools |-> t] : n \in PluginNames, t \in ToolLists}
    \cup {[kind |-> "tools_raise", name |-> n, tools |-> <<>>] : n \in PluginNames}
    \cup {[kind |-> "broken", name |-> "", tools |-> <<>>]}

Directories == UNION {[1..n -> PluginFiles] : n \in 0..MaxFiles}

VARIABLES
    plugin_dir,         \* the *.py files of the plugin directory, in glob order
    plugins,            \* PluginManager.plugins: plugin name -> file index of its instance
    tools,              \* PluginManager.tools: list of [name, owner]
    loaded_plugins,     \* what the last load_plugins / reload_plugins returned
    loads,              \* number of load_plugins / reload_plugins calls so far
    built,              \* GeodeBridge.__init__ has completed
    tool_functions,     \* GeodeBridge.tool_functions
    tool_function_map   \* GeodeBridge.tool_function_map: name -> owner

registryVars ==
    <<plugin_dir, plugins, tools, loaded_plugins, loads, built, tool_functions, tool_function_map>>

VARIABLES
    pc,                 \* position of the worker inside send_message
    first_response,     \* send_message's local `response`
    response,           \* _process_tool_calls' local `response`
    iteration,          \* _process_tool_calls' loop variable
    function_calls,     \* calls extracted in the current round
    call_idx,           \* index of the call the inner loop is at
    function_responses, \* results collected in the current round
    exc,                \* the exception being handled
    error_text,         \* the text the loop is about to emit as an error
    escaped,            \* an exception is propagating out of send_message
    events,             \* emit calls of the current prompt: [sig, text, raised]
    sends,              \* ai_client.send_message calls of the current prompt:
                        \* [input, n results, round, raised]
    executed,           \* callables invoked during the current prompt:
                        \* [name, owner, raised, result]
    prior_failed        \* an earlier prompt on this bridge emitted an error

bridgeVars ==
    <<pc, first_response, response, iteration, function_calls, call_idx,
      function_responses, exc, error_text, escaped, events, sends, executed,
      prior_failed>>

VARIABLES
    vault_call,         \* the vault tool called last and its argument
    vault_requests,     \* the _make_request calls of that tool call:
                        \* [method, endpoint, reply, exc]
    vault_result        \* what the tool call gave: [raised, value]

vaultVars == <<vault_call, vault_requests, vault_result>>

VARIABLES
    disk,               \* the files of the history directory: path -> [kind, sessions]
    sessions,           \* ChatHistoryManager.sessions, in dict order
    max_sessions,       \* ChatHistoryManager.max_sessions
    now,                \* the clock: datetime.now() and time.time()
    hist_pc,            \* position of the manager: new, loaded, open, write, rename, saved
    data,               \* save_history's local `data`: the session dicts to write
    presave,            \* the sessions save_history found when it was entered
    loaded_from,        \* what load_history found at the history path
    last_saved          \* the sessions held when a save last replaced the history file

historyVars ==
    <<disk, sessions, max_sessions, now, hist_pc, data, presave, loaded_from, last_saved>>

VARIABLES
    thread_op,          \* the file operation each thread is in, "" when in none
    thread_pc,          \* its position: idle, lock, open, io, unlock
    mutex,              \* the owner of each QMutex, Free when it has none
    config_file,        \* what config.json holds: document, partial
    config_loads        \* what each thread's last Config.load gave

fileVars == <<thread_op, thread_pc, mutex, config_file, config_loads>>

VARIABLES
    input_text,         \* ChatInput's text
    popup_visible,      \* the autocomplete popup is shown
    send_disabled,      \* the send button is disabled
    workers             \* the workers the chat view has started: running,
                        \* finished (the event is queued), handled

chatVars == <<input_text, popup_visible, send_disabled, workers>>

VARIABLES
    ai_provider,        \* config.ai_provider
    credential,         \* the API key configured for that provider
    library,            \* the provider's client library can be imported
    setup,              \* _setup_ai_client: new, ready, failed
    setup_exc,          \* what _setup_ai_client raised
    client,             \* AIClient.client
    chat,               \* AIClient.chat
    messages,           \* the adapter's list: messages, chat_history
    send_log            \* the send_message calls on the adapter: [input,
                        \* before, request, exc, response, after]

adapterVars ==
    <<ai_provider, credential, library, setup, setup_exc, client, chat, messages, send_log>>

\* The variables neither the plugin registry nor send_message touches.
restVars == <<vaultVars, historyVars, fileVars, chatVars, adapterVars>>

EmptyMap == [x \in {} |-> 0]

(***************************************************************************)
(* PluginManager                                                           *)
(***************************************************************************)

\* _register_plugin without the test for an already registered name.
RegisterPlugin_NoDuplicateCheck(st, i, f) ==
    IF f.kind = "tools_raise"
    THEN [plugins |-> (f.name :> i) @@ st.plugins, tools |-> st.tools, ret |-> ""]
    ELSE [plugins |-> (f.name :> i) @@ st.plugins,
          tools |-> st.tools \o [k \in 1..Len(f.tools) |-> [name |-> f.tools[k], owner |-> i]],
          ret |-> f.name]

\* _register_plugin: the manager state [plugins, tools] after registering the
\* instance of file i, and the name it returns ("" when not registered).
RegisterPlugin(st, i, f) ==
    IF f.name \in DOMAIN st.plugins
    THEN [plugins |-> st.plugins, tools |-> st.tools, ret |-> ""]
    ELSE IF f.kind = "tools_raise"
    THEN [plugins |-> st.plugins @@ (f.name :> i), tools |-> st.tools, ret |-> ""]
    ELSE [plugins |-> st.plugins @@ (f.name :> i),
          tools |-> st.tools \o [k \in 1..Len(f.tools) |-> [name |-> f.tools[k], owner |-> i]],
          ret |-> f.name]

\* _load_single_plugin: import the module, find the class, register it.
LoadSinglePlugin(st, i, f) ==
    IF f.kind = "broken"
    THEN [plugins |-> st.plugins, tools |-> st.tools, ret |-> ""]
    ELSE RegisterPlugin(st, i, f)

\* The loop of load_plugins over files i..Len(dir); st also carries the list
\* of loaded names.
RECURSIVE LoadFrom(_, _, _)
LoadFrom(st, dir, i) ==
    IF i > Len(dir) THEN st
    ELSE LET r == LoadSinglePlugin(st, i, dir[i])
         IN LoadFrom([plugins |-> r.plugins, tools |-> r.tools,
                      loaded |-> IF r.ret # "" THEN Append(st.loaded, r.ret) ELSE st.loaded],
                     dir, i + 1)

\* load_plugins on a manager holding plugins p and tools t.
LoadPluginsResult(p, t, dir) ==
    LoadFrom([plugins |-> p, tools |-> t, loaded |-> <<>>], dir, 1)

\* get_all_tools: a copy of the tool list.
GetAllTools(t) == t

LoadPlugins ==
    /\ loads < MaxLoads
    /\ LET r == LoadPluginsResult(plugins, tools, plugin_dir)
       IN /\ plugins' = r.plugins
          /\ tools' = r.tools
          /\ loaded_plugins' = r.loaded
    /\ loads' = loads + 1
    /\ UNCHANGED <<plugin_dir, built, tool_functions, tool_function_map>>
    /\ UNCHANGED bridgeVars
    /\ UNCHANGED restVars

\* reload_plugins without the tools.clear() of line 325.
ReloadPlugins_KeepTools ==
    /\ loads < MaxLoads
    /\ LET r == LoadPluginsResult(EmptyMap, tools, plugin_dir)
       IN /\ plugins' = r.plugins
          /\ tools' = r.tools
          /\ loaded_plugins' = r.loaded
    /\ loads' = loads + 1
    /\ UNCHANGED <<plugin_dir, built, tool_functions, tool_function_map>>
    /\ UNCHANGED bridgeVars
    /\ UNCHANGED restVars

ReloadPlugins ==
    /\ loads < MaxLoads
    /\ LET r == LoadPluginsResult(EmptyMap, <<>>, plugin_dir)
       IN /\ plugins' = r.plugins
          /\ tools' = r.tools
          /\ loaded_plugins' = r.loaded
    /\ loads' = loads + 1
    /\ UNCHANGED <<plugin_dir, built, tool_functions, tool_function_map>>
    /\ UNCHANGED bridgeVars
    /\ UNCHANGED restVars

(***************************************************************************)
(* GeodeBridge construction                                                *)
(***************************************************************************)

\* MCPClient.get_available_tools: available_tools is never filled.
McpTools == <<>>

\* _setup_tool_functions: built-in tools, then plugin tools, then MCP tools.
SetupToolFunctions(pluginTools) ==
    [k \in 1..Len(BuiltinNames) |-> [name |-> BuiltinNames[k], owner |-> Obsidian]]
    \o GetAllTools(pluginTools) \o McpTools

\* {func.__name__: func for func in self.tool_functions}: a later entry with
\* the same name replaces the earlier one.
RECURSIVE ToolFunctionMap(_)
ToolFunctionMap(fs) ==
    IF fs = <<>> THEN EmptyMap
    ELSE LET last == fs[Len(fs)]
         IN (last.name :> last.owner) @@ ToolFunctionMap(SubSeq(fs, 1, Len(fs) - 1))

\* GeodeBridge.__init__ on a fresh PluginManager.
BridgeInit ==
    /\ ~built
    /\ loads = 0
    /\ LET r == LoadPluginsResult(plugins, tools, plugin_dir)
           fs == SetupToolFunctions(r.tools)
       IN /\ plugins' = r.plugins
          /\ tools' = r.tools
          /\ loaded_plugins' = r.loaded
          /\ tool_functions' = fs
          /\ tool_function_map' = ToolFunctionMap(fs)
    /\ loads' = loads + 1
    /\ built' = TRUE
    /\ UNCHANGED plugin_dir
    /\ UNCHANGED bridgeVars
    /\ UNCHANGED restVars

\* PluginManager.__init__ for one of the directories dirs; no bridge yet.
InitRegistry(dirs) ==
    /\ plugin_dir \in dirs
    /\ plugins = EmptyMap
    /\ tools = <<>>
    /\ loaded_plugins = <<>>
    /\ loads = 0
    /\ built = FALSE
    /\ tool_functions = <<>>
    /\ tool_function_map = EmptyMap

(***************************************************************************)
(* Strings, as the vault tools build and take them apart                   *)
(***************************************************************************)

StartsWith(s, p) == Len(s) >= Len(p) /\ SubSeq(s, 1, Len(p)) = p
EndsWith(s, p) == Len(s) >= Len(p) /\ SubSeq(s, Len(s) - Len(p) + 1, Len(s)) = p

\* str.replace(old, new)
RECURSIVE Replace(_, _, _)
Replace(s, old, new) ==
    IF s = "" THEN ""
    ELSE IF StartsWith(s, old)
    THEN new \o Replace(SubSeq(s, Len(old) + 1, Len(s)), old, new)
    ELSE SubSeq(s, 1, 1) \o Replace(Tail(s), old, new)

\* str.strip()
RECURSIVE Strip(_)
Strip(s) ==
    IF StartsWith(s, " ") THEN Strip(Tail(s))
    ELSE IF EndsWith(s, " ") THEN Strip(SubSeq(s, 1, Len(s) - 1))
    ELSE s

\* str.rstrip('/')
RECURSIVE RStripSlash(_)
RStripSlash(s) == IF EndsWith(s, "/") THEN RStripSlash(SubSeq(s, 1, Len(s) - 1)) ELSE s

\* str.split(sep): the text up to the first sep, then the split of the rest.
RECURSIVE UpTo(_, _)
UpTo(s, sep) ==
    IF s = "" \/ StartsWith(s, sep) THEN "" ELSE SubSeq(s, 1, 1) \o UpTo(Tail(s), sep)

RECURSIVE Split(_, _)
Split(s, sep) ==
    LET head == UpTo(s, sep)
    IN IF Len(head) = Len(s) THEN <<head>>
       ELSE <<head>> \o Split(SubSeq(s, Len(head) + Len(sep) + 1, Len(s)), sep)

\* sep.join(items)
RECURSIVE Join(_, _)
Join(sep, items) ==
    IF items = <<>> THEN ""
    ELSE IF Len(items) = 1 THEN items[1]
    ELSE items[1] \o sep \o Join(sep, Tail(items))

\* urllib.parse.quote with the default safe='/': letters, digits and _.-~/
\* stay, any other character becomes %XX.  The table covers the characters
\* the vault paths below use.
Unreserved == "abcdefghijklmnopqrstuvwxyzABCDEFGHIJKLMNOPQRSTUVWXYZ0123456789_.-~/"

RECURSIVE Quote(_)
Quote(s) ==
    IF s = "" THEN ""
    ELSE LET c == SubSeq(s, 1, 1)
             q == IF \E k \in 1..Len(Unreserved) : SubSeq(Unreserved, k, k) = c THEN c
                  ELSE CASE c = " " -> "%20"
                         [] c = "'" -> "%27"
                         [] c = ":" -> "%3A"
         IN q \o Quote(Tail(s))

\* sorted(items) for items drawn from the names below, which are listed in
\* code-point order.
NameOrder == <<"a.md", "d/", "my note.md">>

Sorted(items) ==
    LET present == {k \in 1..Len(NameOrder) : \E i \in 1..Len(items) : items[i] = NameOrder[k]}
        count(k) == Cardinality({i \in 1..Len(items) : items[i] = NameOrder[k]})
        RECURSIVE from(_)
        from(k) == IF k > Len(NameOrder) THEN <<>>
                   ELSE [i \in 1..count(k) |-> NameOrder[k]] \o from(k + 1)
    IN from(1)

\* sorted(list(set(paths))) for the paths list_all_files collects.
PathOrder ==
    <<"SUCCESS: The directory '.' is empty.", "a.md", "d/",
      "d/SUCCESS: The directory 'd/' is empty.", "d/a.md", "d/my note.md", "my note.md">>

SortedUnique(paths) ==
    LET RECURSIVE from(_)
        from(k) == IF k > Len(PathOrder) THEN <<>>
                   ELSE (IF \E i \in 1..Len(paths) : paths[i] = PathOrder[k]
                         THEN <<PathOrder[k]>> ELSE <<>>) \o from(k + 1)
    IN from(1)

(***************************************************************************)
(* ObsidianAPI._make_request                                               *)
(***************************************************************************)

\* status_code of an exception that carries none (None).
NoStatus == 0

\* An Obsidian exception: its class, str(e) and its status_code.
ObsidianExc(c, m, s) == [cls |-> c, msg |-> m, status_code |-> s]
NoObsidianExc == ObsidianExc("", "", NoStatus)

\* The classes an exception of class c is an instance of (exceptions.py).
Bases(c) ==
    CASE c \in {"ObsidianConnectionError", "ObsidianAuthError", "ObsidianAPIError"} ->
            {c, "ObsidianError", "GeodeException", "Exception"}
      [] c = "ObsidianError" -> {c, "GeodeException", "Exception"}
      [] OTHER -> {c, "Exception"}

IsInstance(e, c) == c \in Bases(e.cls)

\* The statuses the vault server answers with.
Statuses == {200, 401, 404, 500}

\* A directory listing as the server sends it.
Listings ==
    {[subfolders |-> sf, files |-> fs] :
        sf \in {<<>>, <<"d">>}, fs \in {<<>>, <<"a.md">>, <<"my note.md", "a.md">>}}

NoListing == [subfolders |-> <<>>, files |-> <<>>]

\* The body of a response: its text, and the listing it parses to when it is
\* the JSON of one.
Bodies ==
    {[is_json |-> TRUE, listing |-> l, text |-> "{...}"] : l \in Listings}
    \cup {[is_json |-> FALSE, listing |-> NoListing, text |-> "hello"]}

ErrorBody == [is_json |-> FALSE, listing |-> NoListing, text |-> "Server says no"]

\* What session.request does: raise one of the requests exceptions, or give
\* the server's response.
TransportFailures == {"Timeout", "ConnectionError", "RequestException"}

Replies ==
    {[kind |-> k, status_code |-> NoStatus, body |-> ErrorBody] : k \in TransportFailures}
    \cup {[kind |-> "response", status_code |-> 200, body |-> b] : b \in Bodies}
    \cup {[kind |-> "response", status_code |-> s, body |-> ErrorBody] : s \in Statuses \ {200}}

\* Response.raise_for_status
RaiseForStatus(reply) == reply.status_code >= 400 /\ reply.status_code < 600

\* _make_request without the 401 branch.
MakeRequest_No401(method, endpoint, reply) ==
    LET raise(e) == [exc |-> e, reply |-> reply, method |-> method, endpoint |-> endpoint]
    IN IF reply.kind = "Timeout"
       THEN raise(ObsidianExc("ObsidianConnectionError",
                "Request timed out. Check your network or Obsidian's responsiveness.", NoStatus))
       ELSE IF reply.kind = "ConnectionError"
       THEN raise(ObsidianExc("ObsidianConnectionError",
                "Connection failed. Is Obsidian running with the Local REST API plugin enabled?",
                NoStatus))
       ELSE IF reply.kind = "RequestException"
       THEN raise(ObsidianExc("ObsidianError",
                "An unexpected request error occurred: " \o "request failed", NoStatus))
       ELSE IF RaiseForStatus(reply)
       THEN IF reply.status_code = 404
            THEN raise(ObsidianExc("ObsidianAPIError",
                     "Resource not found (404) at '" \o endpoint \o "'", 404))
            ELSE raise(ObsidianExc("ObsidianAPIError",
                     "HTTP Error " \o ToString(reply.status_code) \o ": " \o reply.body.text,
                     reply.status_code))
       ELSE raise(NoObsidianExc)

\* _make_request: the request made and what it raised (NoObsidianExc when it
\* returned the response).
MakeRequest(method, endpoint, reply) ==
    LET raise(e) == [exc |-> e, reply |-> reply, method |-> method, endpoint |-> endpoint]
    IN IF reply.kind = "Timeout"
       THEN raise(ObsidianExc("ObsidianConnectionError",
                "Request timed out. Check your network or Obsidian's responsiveness.", NoStatus))
       ELSE IF reply.kind = "ConnectionError"
       THEN raise(ObsidianExc("ObsidianConnectionError",
                "Connection failed. Is Obsidian running with the Local REST API plugin enabled?",
                NoStatus))
       ELSE IF reply.kind = "RequestException"
       THEN raise(ObsidianExc("ObsidianError",
                "An unexpected request error occurred: " \o "request failed", NoStatus))
       ELSE IF RaiseForStatus(reply)
       THEN IF reply.status_code = 401
            THEN raise(ObsidianExc("ObsidianAuthError",
                     "Authentication failed (401). Check your Obsidian API key.", NoStatus))
            ELSE IF reply.status_code = 404
            THEN raise(ObsidianExc("ObsidianAPIError",
                     "Resource not found (404) at '" \o endpoint \o "'", 404))
            ELSE raise(ObsidianExc("ObsidianAPIError",
                     "HTTP Error " \o ToString(reply.status_code) \o ": " \o reply.body.text,
                     reply.status_code))
       ELSE raise(NoObsidianExc)

(***************************************************************************)
(* ObsidianTools                                                           *)
(***************************************************************************)

Unexpected == "ERROR: An unexpected error occurred. Check logs."

\* What a tool call gives: the requests it made, whether an exception left
\* it, and the string it returned.
Returned(reqs, s) == [requests |-> reqs, raised |-> FALSE, value |-> s]
Raised(reqs) == [requests |-> reqs, raised |-> TRUE, value |-> ""]

\* list_files
ListFilesResult(directory, reply) ==
    LET rq == MakeRequest("GET", "/vault/" \o Quote(directory), reply)
        e == rq.exc
        folders == [i \in 1..Len(reply.body.listing.subfolders) |->
                        reply.body.listing.subfolders[i] \o "/"]
        all_items == Sorted(folders \o reply.body.listing.files)
    IN IF e = NoObsidianExc
       THEN IF ~reply.body.is_json
            THEN Returned(<<rq>>, Unexpected)
            ELSE IF all_items = <<>>
            THEN Returned(<<rq>>, "SUCCESS: The directory '" \o directory \o "' is empty.")
            ELSE Returned(<<rq>>, "SUCCESS:\\n" \o Join("\\n", all_items))
       ELSE IF IsInstance(e, "ObsidianError")
       THEN Returned(<<rq>>, "ERROR: Could not list files in '" \o directory
                              \o "'. Reason: " \o e.msg)
       ELSE IF IsInstance(e, "Exception")
       THEN Returned(<<rq>>, Unexpected)
       ELSE Raised(<<rq>>)

\* list_all_files.fetch_directory over a vault whose root answers world.root
\* and whose folders answer world.sub: the paths collected and the requests
\* made.
RECURSIVE FetchDirectory(_, _)
RECURSIVE FetchItems(_, _, _)
FetchDirectory(path, world) ==
    LET r == ListFilesResult(path, IF path = "." THEN world.root ELSE world.sub)
        lines == Split(Strip(Replace(r.value, "SUCCESS:\\n", "")), "\\n")
    IN IF StartsWith(r.value, "ERROR")
       THEN [paths |-> <<>>, requests |-> r.requests]
       ELSE LET x == FetchItems(path, lines, world)
            IN [paths |-> x.paths, requests |-> r.requests \o x.requests]

FetchItems(path, lines, world) ==
    IF lines = <<>> THEN [paths |-> <<>>, requests |-> <<>>]
    ELSE LET item == lines[1]
             full_path == IF path = "." THEN item ELSE RStripSlash(path) \o "/" \o item
             below == IF item # "" /\ EndsWith(item, "/")
                      THEN FetchDirectory(full_path, world)
                      ELSE [paths |-> <<>>, requests |-> <<>>]
             rest == FetchItems(path, Tail(lines), world)
         IN IF item = "" THEN rest
            ELSE [paths |-> <<full_path>> \o below.paths \o rest.paths,
                  requests |-> below.requests \o rest.requests]

\* list_all_files
ListAllFilesResult(world) ==
    LET x == FetchDirectory(".", world)
    IN IF x.paths = <<>>
       THEN Returned(x.requests,
                "ERROR: No files or folders found in the vault, or the vault root could not be read.")
       ELSE Returned(x.requests, "SUCCESS:\\n" \o Join("\\n", SortedUnique(x.paths)))

\* read_file
ReadFileResult(file_path, reply) ==
    LET rq == MakeRequest("GET", "/vault/" \o Quote(file_path), reply)
        e == rq.exc
    IN IF e = NoObsidianExc
       THEN Returned(<<rq>>, reply.body.text)
       ELSE IF IsInstance(e, "ObsidianAPIError")
       THEN IF e.status_code = 404
            THEN Returned(<<rq>>, "ERROR: The file '" \o file_path
                                   \o "' was not found in the vault.")
            ELSE Returned(<<rq>>, "ERROR: Could not read file. Reason: " \o e.msg)
       ELSE IF IsInstance(e, "Exception")
       THEN Returned(<<rq>>, Unexpected)
       ELSE Raised(<<rq>>)

\* create_or_update_file
CreateOrUpdateFileResult(file_path, reply) ==
    LET rq == MakeRequest("PUT", "/vault/" \o Quote(file_path), reply)
        e == rq.exc
    IN IF e = NoObsidianExc
       THEN Returned(<<rq>>, "SUCCESS: The file '" \o file_path \o "' was saved successfully.")
       ELSE IF IsInstance(e, "ObsidianError")
       THEN Returned(<<rq>>, "ERROR: Could not write to file. Reason: " \o e.msg)
       ELSE IF IsInstance(e, "Exception")
       THEN Returned(<<rq>>, Unexpected)
       ELSE Raised(<<rq>>)

\* delete_file
DeleteFileResult(file_path, reply) ==
    LET rq == MakeRequest("DELETE", "/vault/" \o Quote(file_path), reply)
        e == rq.exc
    IN IF e = NoObsidianExc
       THEN Returned(<<rq>>, "SUCCESS: The file '" \o file_path \o "' was deleted.")
       ELSE IF IsInstance(e, "ObsidianAPIError")
       THEN IF e.status_code = 404
            THEN Returned(<<rq>>, "ERROR: Could not delete the file '" \o file_path
                                   \o "' because it was not found.")
            ELSE Returned(<<rq>>, "API Error: Could not delete file. Reason: " \o e.msg)
       ELSE IF IsInstance(e, "Exception")
       THEN Returned(<<rq>>, Unexpected)
       ELSE Raised(<<rq>>)

\* The arguments the tools are called with.
VaultDirectories == {".", "d/"}
VaultPaths == {"a.md", "my note.md"}

\* A vault with folders no deeper than one level below the root.
Worlds ==
    {[root |-> r, sub |-> s] :
        r \in Replies, s \in {q \in Replies : q.body.listing.subfolders = <<>>}}

NoVaultCall == [tool |-> "", arg |-> ""]

\* list_files called for one of the directories.
ListFiles ==
    /\ \E directory \in VaultDirectories, reply \in Replies :
         LET r == ListFilesResult(directory, reply)
         IN /\ vault_call' = [tool |-> "list_files", arg |-> directory]
            /\ vault_requests' = r.requests
            /\ vault_result' = [raised |-> r.raised, value |-> r.value]
    /\ UNCHANGED <<registryVars, bridgeVars, adapterVars, historyVars, fileVars, chatVars>>

\* list_all_files called on one of the vaults.
ListAllFiles ==
    /\ \E world \in Worlds :
         LET r == ListAllFilesResult(world)
         IN /\ vault_call' = [tool |-> "list_all_files", arg |-> ""]
            /\ vault_requests' = r.requests
            /\ vault_result' = [raised |-> r.raised, value |-> r.value]
    /\ UNCHANGED <<registryVars, bridgeVars, adapterVars, historyVars, fileVars, chatVars>>

\* read_file called for one of the paths.
ReadFile ==
    /\ \E file_path \in VaultPaths, reply \in Replies :
         LET r == ReadFileResult(file_path, reply)
         IN /\ vault_call' = [tool |-> "read_file", arg |-> file_path]
            /\ vault_requests' = r.requests
            /\ vault_result' = [raised |-> r.raised, value |-> r.value]
    /\ UNCHANGED <<registryVars, bridgeVars, adapterVars, historyVars, fileVars, chatVars>>

\* create_or_update_file called for one of the paths.
CreateOrUpdateFile ==
    /\ \E file_path \in VaultPaths, reply \in Replies :
         LET r == CreateOrUpdateFileResult(file_path, reply)
         IN /\ vault_call' = [tool |-> "create_or_update_file", arg |-> file_path]
            /\ vault_requests' = r.requests
            /\ vault_result' = [raised |-> r.raised, value |-> r.value]
    /\ UNCHANGED <<registryVars, bridgeVars, adapterVars, historyVars, fileVars, chatVars>>

\* delete_file called for one of the paths.
DeleteFile ==
    /\ \E file_path \in VaultPaths, reply \in Replies :
         LET r == DeleteFileResult(file_path, reply)
         IN /\ vault_call' = [tool |-> "delete_file", arg |-> file_path]
            /\ vault_requests' = r.requests
            /\ vault_result' = [raised |-> r.raised, value |-> r.value]
    /\ UNCHANGED <<registryVars, bridgeVars, adapterVars, historyVars, fileVars, chatVars>>

\* No tool has been called yet.
InitVault ==
    /\ vault_call = NoVaultCall
    /\ vault_requests = <<>>
    /\ vault_result = [raised |-> FALSE, value |-> ""]

(***************************************************************************)
(* ChatMessage, ChatSession                                                *)
(***************************************************************************)

MessageFields == {"timestamp", "sender", "content", "message_type"}

\* The exception a from_dict raises, "" when it raises none.
NoError == ""

\* ChatMessage.to_dict: asdict(self).
ChatMessageToDict(m) ==
    [timestamp |-> m.timestamp, sender |-> m.sender, content |-> m.content,
     message_type |-> m.message_type]

\* ChatMessage.from_dict reading every message as "text".
ChatMessageFromDict_TextOnly(d) ==
    IF ~(DOMAIN d \subseteq MessageFields)
       \/ ~({"timestamp", "sender", "content"} \subseteq DOMAIN d)
    THEN [error |-> "TypeError", message |-> d]
    ELSE [error |-> NoError,
          message |-> [timestamp |-> d.timestamp, sender |-> d.sender, content |-> d.content,
                       message_type |-> "text"]]

\* ChatMessage.from_dict: cls(**data) takes the four fields, message_type
\* defaulting to "text", and raises TypeError on a missing or an unknown key.
ChatMessageFromDict(d) ==
    IF ~(DOMAIN d \subseteq MessageFields)
       \/ ~({"timestamp", "sender", "content"} \subseteq DOMAIN d)
    THEN [error |-> "TypeError", message |-> d]
    ELSE [error |-> NoError,
          message |-> [timestamp |-> d.timestamp, sender |-> d.sender, content |-> d.content,
                       message_type |-> IF "message_type" \in DOMAIN d THEN d.message_type
                                        ELSE "text"]]

\* ChatSession.to_dict
ChatSessionToDict(s) ==
    [session_id |-> s.session_id, title |-> s.title, created_at |-> s.created_at,
     updated_at |-> s.updated_at,
     messages |-> [i \in 1..Len(s.messages) |-> ChatMessageToDict(s.messages[i])]]

\* ChatSession.from_dict: messages default to the empty list, the other four
\* keys are required (KeyError).
ChatSessionFromDict(d) ==
    LET msgs == IF "messages" \in DOMAIN d THEN d.messages ELSE <<>>
        parsed == [i \in 1..Len(msgs) |-> ChatMessageFromDict(msgs[i])]
    IN IF \E i \in 1..Len(msgs) : parsed[i].error # NoError
       THEN [error |-> "TypeError", session |-> d]
       ELSE IF ~({"session_id", "title", "created_at", "updated_at"} \subseteq DOMAIN d)
       THEN [error |-> "KeyError", session |-> d]
       ELSE [error |-> NoError,
             session |-> [session_id |-> d.session_id, title |-> d.title,
                          created_at |-> d.created_at, updated_at |-> d.updated_at,
                          messages |-> [i \in 1..Len(msgs) |-> parsed[i].message]]]

(***************************************************************************)
(* The history file                                                        *)
(***************************************************************************)

\* Config.chat_history_file
HistoryPath == "chat_history.json"

\* Path.with_suffix: the text from the last dot of the name on is replaced by
\* the suffix; a name without a dot gets the suffix appended.
RECURSIVE LastDot(_)
LastDot(p) ==
    IF p = "" THEN 0
    ELSE IF SubSeq(p, Len(p), Len(p)) = "." THEN Len(p)
    ELSE LastDot(SubSeq(p, 1, Len(p) - 1))

WithSuffix(p, suffix) ==
    IF LastDot(p) <= 1 THEN p \o suffix ELSE SubSeq(p, 1, LastDot(p) - 1) \o suffix

\* save_history writing to the history path itself.
TempPath_InPlace == HistoryPath

\* save_history, line 113
TempPath == WithSuffix(HistoryPath, ".tmp")

\* load_history, line 95, at the time t of the clock
BackupPath(t) == WithSuffix(HistoryPath, ".corrupted." \o ToString(t) \o ".json")

\* What a path holds:
\*   "absent"      no file
\*   "empty"       a file of size 0
\*   "garbage"     text that is not JSON
\*   "partial"     the beginning of a JSON document, the sessions written so far
\*   "json_other"  JSON without a 'sessions' list
\*   "document"    {"sessions": [...]}
File(kind, ss) == [kind |-> kind, sessions |-> ss]
Absent == File("absent", <<>>)

\* What the path p holds on the disk d.
Content(d, p) == IF p \in DOMAIN d THEN d[p] ELSE Absent

\* open(p, 'w') ... write ... : the path p holds f afterwards.
Written(d, p, f) == [q \in DOMAIN d \cup {p} |-> IF q = p THEN f ELSE d[q]]

\* Path.rename: dst holds what src held and src is gone; renaming a path to
\* itself changes nothing.
Renamed(d, src, dst) ==
    [q \in (DOMAIN d \ {src}) \cup {dst} |-> IF q = dst THEN d[src] ELSE d[q]]

Message(t, type) == [timestamp |-> t, sender |-> "user", content |-> "hi", message_type |-> type]

Session(id, updated, msgs) ==
    [session_id |-> id, title |-> "Chat", created_at |-> id, updated_at |-> updated,
     messages |-> msgs]

\* Sessions written before the clock of the model starts; two of them were
\* updated at the same time.
OldSessions ==
    <<ChatSessionToDict(Session(-3, -2, <<Message(-2, "tool_call")>>)),
      ChatSessionToDict(Session(-2, -2, <<>>)),
      ChatSessionToDict(Session(-1, -1, <<Message(-1, "text")>>))>>

\* An entry written without its messages key, an entry without its title, and
\* an entry one of whose messages has a key ChatMessage does not take.
LegacyEntry == [session_id |-> -1, title |-> "Chat", created_at |-> -1, updated_at |-> -1]
UntitledEntry == [session_id |-> -1, created_at |-> -1, updated_at |-> -1, messages |-> <<>>]
ForeignEntry ==
    [session_id |-> -1, title |-> "Chat", created_at |-> -1, updated_at |-> -1,
     messages |-> <<[timestamp |-> -1, sender |-> "user", content |-> "hi", role |-> "user"]>>]

\* What the history path may hold when a manager is constructed over it.
InitialFiles ==
    {Absent, File("empty", <<>>), File("garbage", <<>>), File("json_other", <<>>),
     File("document", OldSessions), File("document", <<LegacyEntry>>),
     File("document", <<OldSessions[1], UntitledEntry>>),
     File("document", <<OldSessions[1], ForeignEntry>>)}

\* self.sessions[session.session_id] = session on the ordered dict ss.
DictAssign(ss, s) ==
    IF \E i \in 1..Len(ss) : ss[i].session_id = s.session_id
    THEN [i \in 1..Len(ss) |-> IF ss[i].session_id = s.session_id THEN s ELSE ss[i]]
    ELSE Append(ss, s)

\* load_history, lines 88-90: the loop over the entries of the document.
RECURSIVE LoadEntries(_, _)
LoadEntries(ss, entries) ==
    IF entries = <<>> THEN [error |-> NoError, sessions |-> ss]
    ELSE LET x == ChatSessionFromDict(entries[1])
         IN IF x.error # NoError THEN [error |-> x.error, sessions |-> ss]
            ELSE LoadEntries(DictAssign(ss, x.session), Tail(entries))

\* load_history on a manager holding ss over a path holding f: the sessions
\* afterwards and whether the file is to be renamed aside.
LoadHistoryResult(ss, f) ==
    IF f.kind \in {"absent", "empty"}
    THEN [sessions |-> ss, rename |-> FALSE]
    ELSE IF f.kind \in {"garbage", "partial"}
    THEN [sessions |-> <<>>, rename |-> TRUE]
    ELSE IF f.kind = "json_other"
    THEN [sessions |-> <<>>, rename |-> FALSE]
    ELSE LET x == LoadEntries(ss, f.sessions)
         IN [sessions |-> IF x.error # NoError THEN <<>> ELSE x.sessions, rename |-> FALSE]

\* sorted(..., key=updated_at) keeping the oldest first.
RECURSIVE SortedSessions_OldestFirst(_)
SortedSessions_OldestFirst(ss) ==
    IF ss = <<>> THEN <<>>
    ELSE LET rest == SortedSessions_OldestFirst(SubSeq(ss, 1, Len(ss) - 1))
             s == ss[Len(ss)]
             k == Cardinality({i \in 1..Len(rest) : rest[i].updated_at <= s.updated_at})
         IN SubSeq(rest, 1, k) \o <<s>> \o SubSeq(rest, k + 1, Len(rest))

\* sorted(self.sessions.values(), key=lambda s: s.updated_at, reverse=True):
\* most recent first, sessions of equal updated_at in their order in ss.
RECURSIVE SortedSessions(_)
SortedSessions(ss) ==
    IF ss = <<>> THEN <<>>
    ELSE LET rest == SortedSessions(SubSeq(ss, 1, Len(ss) - 1))
             s == ss[Len(ss)]
             k == Cardinality({i \in 1..Len(rest) : rest[i].updated_at >= s.updated_at})
         IN SubSeq(rest, 1, k) \o <<s>> \o SubSeq(rest, k + 1, Len(rest))

\* save_history, lines 107-109.
Evict(ss, max) ==
    IF Len(ss) > max THEN SubSeq(SortedSessions(ss), 1, max) ELSE ss

\* ChatHistoryManager.__init__: a manager over whatever the path holds now,
\* whether the previous one was idle or in the middle of a save.
NewManager ==
    /\ \E rename_ok \in BOOLEAN :
         LET f == Content(disk, HistoryPath)
             x == LoadHistoryResult(<<>>, f)
         IN /\ sessions' = x.sessions
            /\ loaded_from' = f
            /\ disk' = IF x.rename /\ rename_ok
                        THEN Renamed(disk, HistoryPath, BackupPath(now))
                        ELSE disk
    /\ hist_pc' = "loaded"
    /\ data' = <<>>
    /\ UNCHANGED <<max_sessions, now, presave, last_saved>>
    /\ UNCHANGED <<registryVars, bridgeVars, adapterVars, vaultVars, fileVars, chatVars>>

\* save_history up to line 111: the eviction and the document to write.
BeginSave(ss) ==
    /\ presave' = ss
    /\ sessions' = Evict(ss, max_sessions)
    /\ data' = [i \in 1..Len(sessions') |-> ChatSessionToDict(sessions'[i])]
    /\ hist_pc' = "open"

\* create_session
CreateSession ==
    /\ hist_pc \in {"loaded", "saved"}
    /\ now < MaxTime
    /\ BeginSave(DictAssign(sessions, Session(now, now, <<>>)))
    /\ now' = now + 1
    /\ UNCHANGED <<disk, max_sessions, loaded_from, last_saved>>
    /\ UNCHANGED <<registryVars, bridgeVars, adapterVars, vaultVars, fileVars, chatVars>>

\* add_message to a session the manager holds.
AddMessage ==
    /\ hist_pc \in {"loaded", "saved"}
    /\ now < MaxTime
    /\ \E i \in 1..Len(sessions), type \in {"text", "tool_call"} :
         /\ Len(sessions[i].messages) < MaxMessages
         /\ BeginSave([sessions EXCEPT ![i].messages = Append(@, Message(now, type)),
                                       ![i].updated_at = now])
    /\ now' = now + 1
    /\ UNCHANGED <<disk, max_sessions, loaded_from, last_saved>>
    /\ UNCHANGED <<registryVars, bridgeVars, adapterVars, vaultVars, fileVars, chatVars>>

\* delete_session of a session the manager holds.
DeleteSession ==
    /\ hist_pc \in {"loaded", "saved"}
    /\ now < MaxTime
    /\ \E i \in 1..Len(sessions) :
         BeginSave(SubSeq(sessions, 1, i - 1) \o SubSeq(sessions, i + 1, Len(sessions)))
    /\ now' = now + 1
    /\ UNCHANGED <<disk, max_sessions, loaded_from, last_saved>>
    /\ UNCHANGED <<registryVars, bridgeVars, adapterVars, vaultVars, fileVars, chatVars>>

\* save_history, line 114: open(temp_file, 'w') leaves the temp file empty,
\* or raises and the save is given up.
SaveOpen ==
    /\ hist_pc = "open"
    /\ \/ /\ disk' = Written(disk, TempPath, File("partial", <<>>))
          /\ hist_pc' = "write"
       \/ /\ hist_pc' = "saved"
          /\ UNCHANGED disk
    /\ UNCHANGED <<sessions, max_sessions, now, data, presave, loaded_from, last_saved>>
    /\ UNCHANGED <<registryVars, bridgeVars, adapterVars, vaultVars, fileVars, chatVars>>

\* save_history, line 115: json.dump puts the next session on disk, and after
\* the last one the file is closed complete; a write that raises gives the
\* save up and leaves what was written.
SaveWrite ==
    /\ hist_pc = "write"
    /\ LET f == Content(disk, TempPath)
       IN \/ /\ Len(f.sessions) < Len(data)
             /\ disk' = Written(disk, TempPath,
                                File("partial", Append(f.sessions, data[Len(f.sessions) + 1])))
             /\ hist_pc' = "write"
          \/ /\ Len(f.sessions) = Len(data)
             /\ disk' = Written(disk, TempPath, File("document", data))
             /\ hist_pc' = "rename"
          \/ /\ hist_pc' = "saved"
             /\ UNCHANGED disk
    /\ UNCHANGED <<sessions, max_sessions, now, data, presave, loaded_from, last_saved>>
    /\ UNCHANGED <<registryVars, bridgeVars, adapterVars, vaultVars, fileVars, chatVars>>

\* save_history, line 117: the rename puts the complete temp file in the
\* place of the history file, or raises and leaves both.
SaveRename ==
    /\ hist_pc = "rename"
    /\ \/ /\ disk' = Renamed(disk, TempPath, HistoryPath)
          /\ last_saved' = [valid |-> TRUE, sessions |-> sessions]
       \/ UNCHANGED <<disk, last_saved>>
    /\ hist_pc' = "saved"
    /\ UNCHANGED <<sessions, max_sessions, now, data, presave, loaded_from>>
    /\ UNCHANGED <<registryVars, bridgeVars, adapterVars, vaultVars, fileVars, chatVars>>

\* Before any manager exists: the history path holds one of the files fs and
\* the manager will be built with one of the limits ms.
InitHistory(fs, ms) ==
    /\ \E f \in fs : disk = IF f = Absent THEN EmptyMap ELSE (HistoryPath :> f)
    /\ sessions = <<>>
    /\ max_sessions \in ms
    /\ now = 0
    /\ hist_pc = "new"
    /\ data = <<>>
    /\ presave = <<>>
    /\ loaded_from = Absent
    /\ last_saved = [valid |-> FALSE, sessions |-> <<>>]

(***************************************************************************)
(* Config and ChatHistoryManager called from several threads               *)
(***************************************************************************)

Threads == 1..MaxThreads

\* The file operations: Config.load is a classmethod, the other three are
\* methods of the application's one Config and one ChatHistoryManager.
FileOps == {"Config.load", "Config.save", "load_history", "save_history"}

\* The file an operation opens.
FileOf(op) == IF op \in {"Config.load", "Config.save"} THEN "config.json" ELSE HistoryPath

\* The mutex an operation takes before it opens its file, "" when it takes
\* none: Config.save locks self._file_mutex, load_history and save_history
\* lock the manager's _file_mutex, Config.load has no instance and locks
\* nothing.
NoMutex == ""

MutexOf(op) ==
    CASE op = "Config.load" -> NoMutex
      [] op = "Config.save" -> "Config._file_mutex"
      [] OTHER -> "ChatHistoryManager._file_mutex"

Free == 0

\* A thread enters one of the operations.
StartOp ==
    \E t \in Threads :
        /\ thread_pc[t] = "idle"
        /\ \E op \in FileOps :
             /\ thread_op' = [thread_op EXCEPT ![t] = op]
             /\ thread_pc' = [thread_pc EXCEPT ![t] = IF MutexOf(op) = NoMutex THEN "open" ELSE "lock"]
        /\ UNCHANGED <<mutex, config_file, config_loads>>
        /\ UNCHANGED <<registryVars, bridgeVars, adapterVars, vaultVars, historyVars, chatVars>>

\* QMutexLocker(self._file_mutex): the thread waits until the mutex is free.
Lock ==
    \E t \in Threads :
        /\ thread_pc[t] = "lock"
        /\ mutex[MutexOf(thread_op[t])] = Free
        /\ mutex' = [mutex EXCEPT ![MutexOf(thread_op[t])] = t]
        /\ thread_pc' = [thread_pc EXCEPT ![t] = "open"]
        /\ UNCHANGED <<thread_op, config_file, config_loads>>
        /\ UNCHANGED <<registryVars, bridgeVars, adapterVars, vaultVars, historyVars, chatVars>>

\* open(...): Config.save opens config.json for writing, which empties it.
Open ==
    \E t \in Threads :
        /\ thread_pc[t] = "open"
        /\ thread_pc' = [thread_pc EXCEPT ![t] = "io"]
        /\ config_file' = IF thread_op[t] = "Config.save" THEN "partial" ELSE config_file
        /\ UNCHANGED <<thread_op, mutex, config_loads>>
        /\ UNCHANGED <<registryVars, bridgeVars, adapterVars, vaultVars, historyVars, chatVars>>

\* The read or the writes, and the close: Config.save leaves the complete
\* document; Config.load gives a Config, or raises ConfigurationError when
\* what it read does not parse.
Close ==
    \E t \in Threads :
        /\ thread_pc[t] = "io"
        /\ config_file' = IF thread_op[t] = "Config.save" THEN "document" ELSE config_file
        /\ config_loads' = IF thread_op[t] = "Config.load"
                           THEN [config_loads EXCEPT ![t] =
                                    IF config_file = "partial" THEN "ConfigurationError" ELSE "Config"]
                           ELSE config_loads
        /\ IF MutexOf(thread_op[t]) = NoMutex
           THEN /\ thread_pc' = [thread_pc EXCEPT ![t] = "idle"]
                /\ thread_op' = [thread_op EXCEPT ![t] = ""]
           ELSE /\ thread_pc' = [thread_pc EXCEPT ![t] = "unlock"]
                /\ UNCHANGED thread_op
        /\ UNCHANGED mutex
        /\ UNCHANGED <<registryVars, bridgeVars, adapterVars, vaultVars, historyVars, chatVars>>

\* The QMutexLocker goes out of scope.
Unlock ==
    \E t \in Threads :
        /\ thread_pc[t] = "unlock"
        /\ mutex' = [mutex EXCEPT ![MutexOf(thread_op[t])] = Free]
        /\ thread_pc' = [thread_pc EXCEPT ![t] = "idle"]
        /\ thread_op' = [thread_op EXCEPT ![t] = ""]
        /\ UNCHANGED <<config_file, config_loads>>
        /\ UNCHANGED <<registryVars, bridgeVars, adapterVars, vaultVars, historyVars, chatVars>>

\* No thread is in an operation; config.json holds a saved document.
InitFiles ==
    /\ thread_op = [t \in Threads |-> ""]
    /\ thread_pc = [t \in Threads |-> "idle"]
    /\ mutex = [m \in {"Config._file_mutex", "ChatHistoryManager._file_mutex"} |-> Free]
    /\ config_file = "document"
    /\ config_loads = [t \in Threads |-> ""]

(***************************************************************************)
(* ChatInput, ChatView                                                     *)
(***************************************************************************)

\* ChatInput.file_cache
FileCache == <<"a.md">>

\* What the user may have typed into the input.
InputTexts == {"", " ", "hi", "/a", "/A", "/zz", "/a b"}

\* str.lower
RECURSIVE Lower(_)
Lower(s) ==
    IF s = "" THEN ""
    ELSE (IF SubSeq(s, 1, 1) = "A" THEN "a" ELSE SubSeq(s, 1, 1)) \o Lower(Tail(s))

\* sub in s
Contains(s, sub) == \E k \in 1..(Len(s) - Len(sub) + 1) : SubSeq(s, k, k + Len(sub) - 1) = sub

\* str.rfind(sub): the position of the last occurrence, counted from 0, or -1.
RFind(s, sub) ==
    LET at == {k \in 1..(Len(s) - Len(sub) + 1) : SubSeq(s, k, k + Len(sub) - 1) = sub}
    IN IF at = {} THEN -1 ELSE (CHOOSE k \in at : \A j \in at : j <= k) - 1

\* handle_autocomplete with the cursor at the end of the text: the paths the
\* popup offers; it is shown when there are any.
Suggestions(text) ==
    LET last_trigger_pos == RFind(text, "/")
        search_text == SubSeq(text, last_trigger_pos + 2, Len(text))
    IN IF last_trigger_pos = -1 THEN <<>>
       ELSE IF Contains(search_text, " ") \/ Contains(search_text, "\\n") THEN <<>>
       ELSE IF search_text # ""
       THEN SelectSeq(FileCache, LAMBDA path : Contains(Lower(path), Lower(search_text)))
       ELSE FileCache

\* complete_text: the text from the last trigger on is replaced by the item.
CompleteText(text, item) == SubSeq(text, 1, RFind(text, "/")) \o item

Keys == {"Up", "Down", "Return", "Enter", "Tab", "Other"}

\* ChatView.send_message
SendMessage ==
    LET prompt == Strip(input_text)
    IN IF prompt = ""
       THEN UNCHANGED <<input_text, popup_visible, send_disabled, workers>>
       ELSE /\ Len(workers) < MaxWorkers
            /\ input_text' = ""
            /\ popup_visible' = (Suggestions("") # <<>>)
            /\ send_disabled' = TRUE
            /\ workers' = Append(workers, "running")

\* The user edits the text; textChanged runs handle_autocomplete.
EditText ==
    /\ \E text \in InputTexts :
         /\ input_text' = text
         /\ popup_visible' = (Suggestions(text) # <<>>)
    /\ UNCHANGED <<send_disabled, workers>>
    /\ UNCHANGED <<registryVars, bridgeVars, adapterVars, vaultVars, historyVars, fileVars>>

\* ChatInput.keyPressEvent for the keys it handles itself.
KeyPressEvent ==
    /\ \E key \in Keys, meta \in BOOLEAN :
            IF popup_visible /\ key \in {"Up", "Down"}
            THEN UNCHANGED <<input_text, popup_visible, send_disabled, workers>>
            ELSE IF popup_visible /\ key \in {"Enter", "Return", "Tab"}
            THEN /\ input_text' = IF Suggestions(input_text) # <<>>
                                  THEN CompleteText(input_text, Suggestions(input_text)[1])
                                  ELSE input_text
                 /\ popup_visible' = FALSE
                 /\ UNCHANGED <<send_disabled, workers>>
            ELSE IF key \in {"Return", "Enter"} /\ meta
            THEN SendMessage
            ELSE UNCHANGED <<input_text, popup_visible, send_disabled, workers>>
    /\ UNCHANGED <<registryVars, bridgeVars, adapterVars, vaultVars, historyVars, fileVars>>

\* send_button.clicked: a disabled button gives no click.
ClickSend ==
    /\ ~send_disabled
    /\ SendMessage
    /\ UNCHANGED <<registryVars, bridgeVars, adapterVars, vaultVars, historyVars, fileVars>>

\* GeminiWorker.run returns: send_message has emitted finished, the event
\* waits for the GUI thread.
WorkerFinished ==
    /\ \E i \in 1..Len(workers) :
         /\ workers[i] = "running"
         /\ workers' = [workers EXCEPT ![i] = "finished"]
    /\ UNCHANGED <<input_text, popup_visible, send_disabled>>
    /\ UNCHANGED <<registryVars, bridgeVars, adapterVars, vaultVars, historyVars, fileVars>>

\* ChatView.on_finished
OnFinished ==
    /\ \E i \in 1..Len(workers) :
         /\ workers[i] = "finished"
         /\ workers' = [workers EXCEPT ![i] = "handled"]
    /\ send_disabled' = FALSE
    /\ UNCHANGED <<input_text, popup_visible>>
    /\ UNCHANGED <<registryVars, bridgeVars, adapterVars, vaultVars, historyVars, fileVars>>

\* ChatView.__init__
InitChat ==
    /\ input_text = ""
    /\ popup_visible = FALSE
    /\ send_disabled = FALSE
    /\ workers = <<>>

(***************************************************************************)
(* Model responses, exceptions and signals                                 *)
(***************************************************************************)

\* Names the model may ask for: a built-in tool, a plugin tool, and a name no
\* registrant declares.
CallNames == {"read_file", "delete_file", "t1", "nope"}

NoCall == ""

\* A part of the response content: function_call and text attributes (an
\* empty value is falsy).
Parts ==
    {[function_call |-> n, text |-> ""] : n \in CallNames}
    \cup {[function_call |-> NoCall, text |-> t] : t \in {"", "hi"}}

PartLists == UNION {[1..n -> Parts] : n \in 0..MaxParts}

\* How much of candidates[0].content.parts the response object has:
\*   "no_candidates"     no attribute candidates
\*   "empty_candidates"  candidates is None or empty
\*   "no_content"        candidates[0] has no attribute content
\*   "null_content"      candidates[0].content is None
\*   "no_parts"          content has no attribute parts
\*   "null_parts"        content.parts is None
\*   "parts"             content.parts is a list
Shapes ==
    {"no_candidates", "empty_candidates", "no_content", "null_content",
     "no_parts", "null_parts", "parts"}

Responses ==
    {[shape |-> s, parts |-> <<>>] : s \in Shapes \ {"parts"}}
    \cup {[shape |-> "parts", parts |-> p] : p \in PartLists}

NoResponse == [shape |-> "none", parts |-> <<>>]

\* An exception: its class and the tokens of str(e).
NoExc == [cls |-> "", msg |-> <<>>]
Exc(c, m) == [cls |-> c, msg |-> m]

\* What ai_client.send_message may raise.
ProviderExceptions ==
    {Exc("GeminiAuthError", <<"invalid api key">>), Exc("Exception", <<"provider failed">>)}

\* What a signal's emit raises when it fails.
EmitException == Exc("RuntimeError", <<"emit failed">>)

\* What a tool callable does when called: raise, or return a value that is or
\* is not one of the serializable types.
ToolOutcomes == {"raise", "str", "object"}

\* The strings a built-in vault tool returns, over the paths and the replies
\* of the vault server.
VaultReturns(name) ==
    CASE name = "list_files" ->
            {ListFilesResult(d, r).value : d \in VaultDirectories, r \in Replies}
      [] name = "list_all_files" -> {ListAllFilesResult(w).value : w \in Worlds}
      [] name = "read_file" -> {ReadFileResult(f, r).value : f \in VaultPaths, r \in Replies}
      [] name = "create_or_update_file" ->
            {CreateOrUpdateFileResult(f, r).value : f \in VaultPaths, r \in Replies}
      [] name = "delete_file" ->
            {DeleteFileResult(f, r).value : f \in VaultPaths, r \in Replies}

\* What calling the callable registered under fc with the model's arguments
\* does: a built-in tool raises on arguments that do not fit its signature
\* and otherwise returns one of its strings.
OutcomesOf(fc) ==
    IF fc \in DOMAIN tool_function_map /\ tool_function_map[fc] = Obsidian
    THEN {"raise"} \cup VaultReturns(fc)
    ELSE ToolOutcomes

\* The number of tool-call parts a response carries.
RECURSIVE CountCalls(_)
CountCalls(ps) ==
    IF ps = <<>> THEN 0
    ELSE (IF ps[1].function_call # NoCall THEN 1 ELSE 0) + CountCalls(Tail(ps))

(***************************************************************************)
(* AI clients (ai_client.py)                                               *)
(***************************************************************************)

\* The providers create_ai_client knows, and a name it does not know.
Providers ==
    {"gemini", "claude", "openai", "cohere", "mistral", "ollama", "perplexity", "together"}

ProviderNames == Providers \cup {"other"}

\* The adapters that keep the conversation in a list of their own.
Stateless == Providers \ {"gemini"}

\* The API key the configuration holds for the provider: one the provider
\* accepts, none, or one the provider rejects.
Credentials == {"valid", "missing", "rejected"}

\* AIClient.__init__: client and chat are None; no list attribute exists.
None == "None"

\* The list attribute of a stateless adapter (messages; chat_history for
\* CohereClient): the attribute does not exist, or holds the turns.
NoList == [exists |-> FALSE, turns |-> <<>>]
List(ts) == [exists |-> TRUE, turns |-> ts]

\* One entry of a list: the role (USER and CHATBOT for CohereClient) and the
\* content.
Turn(role, content) == [role |-> role, content |-> content]

\* What send_message is given: the prompt, or the results of a tool round.
Inputs == {"prompt", "results"}

\* What the provider's call does: it raises, it answers with a status other
\* than 200 (seen by OllamaClient only), it returns a response without
\* content, or it returns a response with content.
CallOutcomes(p) == {"raise", "empty", "text"} \cup (IF p = "ollama" THEN {"status"} ELSE {})

\* What constructing the vendor's client does.  together and ollama construct
\* none: TogetherClient assigns the key to a module attribute, OllamaClient
\* reads the base URL.  A vendor constructor given a key that is missing or
\* that the provider would reject either raises or returns a client.
Constructions(p, cred) ==
    IF p \in {"together", "ollama"} \/ cred = "valid" THEN {"ok"} ELSE {"ok", "raise"}

AuthError(m) == Exc("GeminiAuthError", m)

\* The attributes of an adapter the model follows, and what a call raised.
Adapter(e, c, h, m) == [exc |-> e, client |-> c, chat |-> h, messages |-> m]

\* GeminiClient.create_chat_session: chats.create raises, or gives the handle.
GeminiCreateChatSession(chat_ok) ==
    IF chat_ok
    THEN [exc |-> NoExc, chat |-> "chat"]
    ELSE [exc |-> Exc("GeminiAPIError", <<"Failed to create Gemini chat session">>),
          chat |-> None]

\* GeminiClient.initialize
GeminiInitialize(lib, construction, chat_ok) ==
    IF ~lib
    THEN Adapter(AuthError(<<"Failed to create Gemini client: ", "ImportError">>),
                 None, None, NoList)
    ELSE IF construction = "raise"
    THEN Adapter(AuthError(<<"Failed to create Gemini client: ", "client">>),
                 None, None, NoList)
    ELSE LET s == GeminiCreateChatSession(chat_ok)
         IN IF s.exc # NoExc
            THEN Adapter(AuthError(<<"Failed to create Gemini client: ">> \o s.exc.msg),
                         "client", None, NoList)
            ELSE Adapter(NoExc, "client", s.chat, NoList)

\* ClaudeClient.initialize: no list is created.
ClaudeInitialize(lib, construction) ==
    IF ~lib
    THEN Adapter(AuthError(<<"Anthropic package not installed.">>), None, None, NoList)
    ELSE IF construction = "raise"
    THEN Adapter(AuthError(<<"Failed to create Claude client: ", "client">>),
                 None, None, NoList)
    ELSE Adapter(NoExc, "client", None, NoList)

\* OpenAIClient.initialize: no list is created.
OpenAIInitialize(lib, construction) ==
    IF ~lib
    THEN Adapter(AuthError(<<"OpenAI package not installed.">>), None, None, NoList)
    ELSE IF construction = "raise"
    THEN Adapter(AuthError(<<"Failed to create OpenAI client: ", "client">>),
                 None, None, NoList)
    ELSE Adapter(NoExc, "client", None, NoList)

\* CohereClient.initialize: no chat_history is created.
CohereInitialize(lib, construction) ==
    IF ~lib
    THEN Adapter(AuthError(<<"Cohere package not installed.">>), None, None, NoList)
    ELSE IF construction = "raise"
    THEN Adapter(AuthError(<<"Failed to create Cohere client: ", "client">>),
                 None, None, NoList)
    ELSE Adapter(NoExc, "client", None, NoList)

\* MistralClient.initialize
MistralInitialize(lib, construction) ==
    IF ~lib
    THEN Adapter(AuthError(<<"Mistral package not installed.">>), None, None, NoList)
    ELSE IF construction = "raise"
    THEN Adapter(AuthError(<<"Failed to create Mistral client: ", "client">>),
                 None, None, NoList)
    ELSE Adapter(NoExc, "client", None, List(<<>>))

\* OllamaClient.initialize: self.client stays None.
OllamaInitialize(lib) ==
    IF ~lib
    THEN Adapter(AuthError(<<"Failed to create Ollama client: ", "ImportError">>),
                 None, None, NoList)
    ELSE Adapter(NoExc, None, None, List(<<>>))

\* PerplexityClient.initialize
PerplexityInitialize(lib, construction) ==
    IF ~lib
    THEN Adapter(AuthError(<<"OpenAI package required for Perplexity.">>),
                 None, None, NoList)
    ELSE IF construction = "raise"
    THEN Adapter(AuthError(<<"Failed to create Perplexity client: ", "client">>),
                 None, None, NoList)
    ELSE Adapter(NoExc, "client", None, List(<<>>))

\* TogetherClient.initialize: the key is assigned to together.api_key;
\* self.client stays None.
TogetherInitialize(lib) ==
    IF ~lib
    THEN Adapter(AuthError(<<"Together package not installed.">>), None, None, NoList)
    ELSE Adapter(NoExc, None, None, List(<<>>))

\* create_ai_client followed by initialize(tool_functions), for provider p.
Initialize(p, lib, construction, chat_ok) ==
    CASE p = "gemini" -> GeminiInitialize(lib, construction, chat_ok)
      [] p = "claude" -> ClaudeInitialize(lib, construction)
      [] p = "openai" -> OpenAIInitialize(lib, construction)
      [] p = "cohere" -> CohereInitialize(lib, construction)
      [] p = "mistral" -> MistralInitialize(lib, construction)
      [] p = "ollama" -> OllamaInitialize(lib)
      [] p = "perplexity" -> PerplexityInitialize(lib, construction)
      [] p = "together" -> TogetherInitialize(lib)
      [] OTHER -> Adapter(Exc("ValueError", <<"Unsupported AI provider: ", p>>),
                          None, None, NoList)

\* What one send_message call gives: the exception it raised, the turns the
\* provider was sent (if the call reached the provider), the list afterwards
\* and the response returned.
NoRequest == [sent |-> FALSE, turns |-> <<>>]
Request(ts) == [sent |-> TRUE, turns |-> ts]
SendResult(e, rq, m, r) == [exc |-> e, request |-> rq, messages |-> m, response |-> r]

NoAttribute(name) == Exc("AttributeError", <<"object has no attribute ", name>>)
ProviderError == Exc("Exception", <<"provider failed">>)

\* GeminiClient.send_message: the chat handle keeps the conversation.
GeminiSendMessage(h, m, input, outcome) ==
    IF h = None
    THEN SendResult(NoAttribute("send_message"), NoRequest, m, "")
    ELSE IF outcome = "raise"
    THEN SendResult(ProviderError, Request(<<Turn("user", input)>>), m, "")
    ELSE SendResult(NoExc, Request(<<Turn("user", input)>>), m, outcome)

\* ClaudeClient.send_message: the user turn is appended, the list is sent,
\* the assistant turn is appended if the response has content.
ClaudeSendMessage(m, input, outcome) ==
    IF ~m.exists
    THEN SendResult(NoAttribute("messages"), NoRequest, m, "")
    ELSE LET sent == Append(m.turns, Turn("user", input))
         IN IF outcome = "raise"
            THEN SendResult(ProviderError, Request(sent), List(sent), "")
            ELSE IF outcome = "empty"
            THEN SendResult(NoExc, Request(sent), List(sent), outcome)
            ELSE SendResult(NoExc, Request(sent),
                            List(Append(sent, Turn("assistant", outcome))), outcome)

\* OpenAIClient.send_message
OpenAISendMessage(m, input, outcome) ==
    IF ~m.exists
    THEN SendResult(NoAttribute("messages"), NoRequest, m, "")
    ELSE LET sent == Append(m.turns, Turn("user", input))
         IN IF outcome = "raise"
            THEN SendResult(ProviderError, Request(sent), List(sent), "")
            ELSE IF outcome = "empty"
            THEN SendResult(NoExc, Request(sent), List(sent), outcome)
            ELSE SendResult(NoExc, Request(sent),
                            List(Append(sent, Turn("assistant", outcome))), outcome)

\* CohereClient.send_message: chat_history is sent together with the new
\* message; both turns are appended after the call.
CohereSendMessage(m, input, outcome) ==
    IF ~m.exists
    THEN SendResult(NoAttribute("chat_history"), NoRequest, m, "")
    ELSE LET sent == Append(m.turns, Turn("USER", input))
         IN IF outcome = "raise"
            THEN SendResult(ProviderError, Request(sent), m, "")
            ELSE IF outcome = "empty"
            THEN SendResult(NoExc, Request(sent), List(sent), outcome)
            ELSE SendResult(NoExc, Request(sent),
                            List(Append(sent, Turn("CHATBOT", outcome))), outcome)

\* MistralClient.send_message
MistralSendMessage(m, input, outcome) ==
    IF ~m.exists
    THEN SendResult(NoAttribute("messages"), NoRequest, m, "")
    ELSE LET sent == Append(m.turns, Turn("user", input))
         IN IF outcome = "raise"
            THEN SendResult(ProviderError, Request(sent), List(sent), "")
            ELSE IF outcome = "empty"
            THEN SendResult(NoExc, Request(sent), List(sent), outcome)
            ELSE SendResult(NoExc, Request(sent),
                            List(Append(sent, Turn("assistant", outcome))), outcome)

\* OllamaClient.send_message: a status other than 200 raises after the post.
OllamaSendMessage(m, input, outcome) ==
    IF ~m.exists
    THEN SendResult(NoAttribute("messages"), NoRequest, m, "")
    ELSE LET sent == Append(m.turns, Turn("user", input))
         IN IF outcome = "raise"
            THEN SendResult(ProviderError, Request(sent), List(sent), "")
            ELSE IF outcome = "status"
            THEN SendResult(Exc("Exception", <<"Ollama API error: ", "status">>),
                            Request(sent), List(sent), "")
            ELSE IF outcome = "empty"
            THEN SendResult(NoExc, Request(sent), List(sent), outcome)
            ELSE SendResult(NoExc, Request(sent),
                            List(Append(sent, Turn("assistant", outcome))), outcome)

\* PerplexityClient.send_message
PerplexitySendMessage(m, input, outcome) ==
    IF ~m.exists
    THEN SendResult(NoAttribute("messages"), NoRequest, m, "")
    ELSE LET sent == Append(m.turns, Turn("user", input))
         IN IF outcome = "raise"
            THEN SendResult(ProviderError, Request(sent), List(sent), "")
            ELSE IF outcome = "empty"
            THEN SendResult(NoExc, Request(sent), List(sent), outcome)
            ELSE SendResult(NoExc, Request(sent),
                            List(Append(sent, Turn("assistant", outcome))), outcome)

\* TogetherClient.send_message: the whole list is joined into the prompt.
TogetherSendMessage(m, input, outcome) ==
    IF ~m.exists
    THEN SendResult(NoAttribute("messages"), NoRequest, m, "")
    ELSE LET sent == Append(m.turns, Turn("user", input))
         IN IF outcome = "raise"
            THEN SendResult(ProviderError, Request(sent), List(sent), "")
            ELSE IF outcome = "empty"
            THEN SendResult(NoExc, Request(sent), List(sent), outcome)
            ELSE SendResult(NoExc, Request(sent),
                            List(Append(sent, Turn("assistant", outcome))), outcome)

\* ai_client.send_message(input) on the adapter of provider p.
SendMessageResult(p, h, m, input, outcome) ==
    CASE p = "gemini" -> GeminiSendMessage(h, m, input, outcome)
      [] p = "claude" -> ClaudeSendMessage(m, input, outcome)
      [] p = "openai" -> OpenAISendMessage(m, input, outcome)
      [] p = "cohere" -> CohereSendMessage(m, input, outcome)
      [] p = "mistral" -> MistralSendMessage(m, input, outcome)
      [] p = "ollama" -> OllamaSendMessage(m, input, outcome)
      [] p = "perplexity" -> PerplexitySendMessage(m, input, outcome)
      [] p = "together" -> TogetherSendMessage(m, input, outcome)

\* GeodeBridge._setup_ai_client: the adapter is created and initialized; any
\* exception is raised again as GeminiAuthError and __init__ does not return.
SetupAiClient ==
    /\ setup = "new"
    /\ \E construction \in Constructions(ai_provider, credential), chat_ok \in BOOLEAN :
         LET a == Initialize(ai_provider, library, construction, chat_ok)
         IN /\ client' = a.client
            /\ chat' = a.chat
            /\ messages' = a.messages
            /\ setup_exc' = IF a.exc = NoExc THEN NoExc
                            ELSE AuthError(<<"Failed to initialize ", ai_provider, " client: ">>
                                           \o a.exc.msg)
            /\ setup' = IF a.exc = NoExc THEN "ready" ELSE "failed"
    /\ UNCHANGED <<ai_provider, credential, library, send_log>>
    /\ UNCHANGED <<registryVars, bridgeVars, vaultVars, historyVars, fileVars, chatVars>>

\* One call of the bridge to ai_client.send_message: send_message line 173 or
\* _process_tool_calls line 222.
ClientSendMessage ==
    /\ setup = "ready"
    /\ Len(send_log) < MaxSends
    /\ \E input \in Inputs, outcome \in CallOutcomes(ai_provider) :
         LET x == SendMessageResult(ai_provider, chat, messages, input, outcome)
         IN /\ messages' = x.messages
            /\ send_log' = Append(send_log,
                              [input |-> input, before |-> messages, request |-> x.request,
                               exc |-> x.exc, response |-> x.response, after |-> x.messages])
    /\ UNCHANGED <<ai_provider, credential, library, setup, setup_exc, client, chat>>
    /\ UNCHANGED <<registryVars, bridgeVars, vaultVars, historyVars, fileVars, chatVars>>

\* AIClient.__init__ for a configuration naming provider p.
InitAdapter(ps, creds, libs) ==
    /\ ai_provider \in ps
    /\ credential \in creds
    /\ library \in libs
    /\ setup = "new"
    /\ setup_exc = NoExc
    /\ client = None
    /\ chat = None
    /\ messages = NoList
    /\ send_log = <<>>

(***************************************************************************)
(* GeodeBridge.send_message                                                *)
(***************************************************************************)

Event(sig, text, raised) == [sig |-> sig, text |-> text, raised |-> raised]

\* bridge.py has no import that binds the module-level name `types` used by
\* _execute_function_call.
TypesDefined == FALSE

\* _extract_function_calls
RECURSIVE CallsOf(_)
CallsOf(ps) ==
    IF ps = <<>> THEN <<>>
    ELSE (IF ps[1].function_call # NoCall THEN <<ps[1].function_call>> ELSE <<>>)
         \o CallsOf(Tail(ps))

ExtractFunctionCalls(r) ==
    IF r.shape \in {"no_candidates", "empty_candidates"}
    THEN [exc |-> NoExc, calls |-> <<>>]
    ELSE IF r.shape \in {"no_content", "null_content"}
    THEN [exc |-> NoExc, calls |-> <<>>]
    ELSE IF r.shape = "no_parts"
    THEN [exc |-> Exc("AttributeError", <<"no attribute 'parts'">>), calls |-> <<>>]
    ELSE IF r.shape = "null_parts"
    THEN [exc |-> Exc("TypeError", <<"'NoneType' object is not iterable">>), calls |-> <<>>]
    ELSE [exc |-> NoExc, calls |-> CallsOf(r.parts)]

\* _extract_final_text
RECURSIVE TextOf(_)
TextOf(ps) ==
    IF ps = <<>> THEN <<>>
    ELSE (IF ps[1].text # "" THEN <<ps[1].text>> ELSE <<>>) \o TextOf(Tail(ps))

ExtractFinalText(r) ==
    IF r.shape \in {"no_candidates", "empty_candidates", "no_content", "null_content"}
    THEN [exc |-> NoExc, text |-> <<>>]
    ELSE IF r.shape = "no_parts"
    THEN [exc |-> Exc("AttributeError", <<"no attribute 'parts'">>), text |-> <<>>]
    ELSE IF r.shape = "null_parts"
    THEN [exc |-> Exc("TypeError", <<"'NoneType' object is not iterable">>), text |-> <<>>]
    ELSE [exc |-> NoExc, text |-> TextOf(r.parts)]

\* _format_error_message
FormatErrorMessage(e) ==
    IF e.cls \in {"GeminiAuthError", "ObsidianAuthError"}
    THEN <<"Authentication Error: Please check your API keys in settings.">>
    ELSE IF e.cls = "ObsidianConnectionError"
    THEN <<"Obsidian Connection Error: Is Obsidian running with the Local REST API plugin?">>
    ELSE <<"An unexpected error occurred: ">> \o e.msg

\* _execute_function_call skipping a request for an unknown name instead of
\* raising.
ExecuteFunctionCallResult_SkipUnknown(fc, emit_raises, outcome) ==
    IF emit_raises
    THEN [exc |-> EmitException, invoked |-> FALSE, result |-> ""]
    ELSE IF fc \notin DOMAIN tool_function_map
    THEN [exc |-> NoExc, invoked |-> FALSE, result |-> ""]
    ELSE IF outcome = "raise"
    THEN [exc |-> Exc("Exception", <<"tool raised: ", fc>>), invoked |-> TRUE, result |-> ""]
    ELSE IF ~TypesDefined
    THEN [exc |-> Exc("NameError", <<"name 'types' is not defined">>),
          invoked |-> TRUE, result |-> ""]
    ELSE [exc |-> NoExc, invoked |-> TRUE,
          result |-> IF outcome = "object" THEN "str(object)" ELSE outcome]

\* _execute_function_call catching what the callable raises and packaging
\* it as the result instead of letting it abort the round.
ExecuteFunctionCallResult_CatchesToolError(fc, emit_raises, outcome) ==
    IF emit_raises
    THEN [exc |-> EmitException, invoked |-> FALSE, result |-> ""]
    ELSE IF fc \notin DOMAIN tool_function_map
    THEN [exc |-> Exc("Exception", <<"Unknown tool function requested: ", fc>>),
          invoked |-> FALSE, result |-> ""]
    ELSE IF outcome = "raise"
    THEN [exc |-> NoExc, invoked |-> TRUE, result |-> "tool raised"]
    ELSE IF ~TypesDefined
    THEN [exc |-> Exc("NameError", <<"name 'types' is not defined">>),
          invoked |-> TRUE, result |-> ""]
    ELSE [exc |-> NoExc, invoked |-> TRUE,
          result |-> IF outcome = "object" THEN "str(object)" ELSE outcome]

\* _execute_function_call for the request named fc: the tool_call emit, the
\* lookup, the call, the coercion of the result and its packaging.  Gives the
\* exception raised (NoExc if none), whether the callable was invoked, and
\* the packaged result.
ExecuteFunctionCallResult(fc, emit_raises, outcome) ==
    IF emit_raises
    THEN [exc |-> EmitException, invoked |-> FALSE, result |-> ""]
    ELSE IF fc \notin DOMAIN tool_function_map
    THEN [exc |-> Exc("Exception", <<"Unknown tool function requested: ", fc>>),
          invoked |-> FALSE, result |-> ""]
    ELSE IF outcome = "raise"
    THEN [exc |-> Exc("Exception", <<"tool raised: ", fc>>), invoked |-> TRUE, result |-> ""]
    ELSE IF ~TypesDefined
    THEN [exc |-> Exc("NameError", <<"name 'types' is not defined">>),
          invoked |-> TRUE, result |-> ""]
    ELSE [exc |-> NoExc, invoked |-> TRUE,
          result |-> IF outcome = "object" THEN "str(object)" ELSE outcome]

\* send_message refusing every prompt once a prompt has failed.
SendPrompt_RefusesAfterFailure ==
    /\ built
    /\ pc = "idle"
    /\ ~prior_failed
    /\ \/ \E e \in ProviderExceptions :
            /\ sends' = Append(sends, [input |-> "prompt", n |-> 0, round |-> 0, raised |-> TRUE])
            /\ exc' = e
            /\ pc' = "except"
            /\ UNCHANGED <<first_response, response>>
       \/ \E r \in Responses :
            /\ sends' = Append(sends, [input |-> "prompt", n |-> 0, round |-> 0, raised |-> FALSE])
            /\ first_response' = r
            /\ response' = r
            /\ pc' = "check"
            /\ exc' = exc
    /\ iteration' = 0
    /\ UNCHANGED <<function_calls, call_idx, function_responses, error_text, escaped,
                   events, executed>>
    /\ UNCHANGED prior_failed
    /\ UNCHANGED registryVars
    /\ UNCHANGED restVars

\* send_message, line 173: the initial send.
SendPrompt ==
    /\ built
    /\ pc = "idle"
    /\ \/ \E e \in ProviderExceptions :
            /\ sends' = Append(sends, [input |-> "prompt", n |-> 0, round |-> 0, raised |-> TRUE])
            /\ exc' = e
            /\ pc' = "except"
            /\ UNCHANGED <<first_response, response>>
       \/ \E r \in Responses :
            /\ sends' = Append(sends, [input |-> "prompt", n |-> 0, round |-> 0, raised |-> FALSE])
            /\ first_response' = r
            /\ response' = r
            /\ pc' = "check"
            /\ exc' = exc
    /\ iteration' = 0
    /\ UNCHANGED <<function_calls, call_idx, function_responses, error_text, escaped,
                   events, executed>>
    /\ UNCHANGED prior_failed
    /\ UNCHANGED registryVars
    /\ UNCHANGED restVars

\* _process_tool_calls, lines 202-209: the head of one round.
CheckForTools ==
    /\ pc = "check"
    /\ LET x == ExtractFunctionCalls(response)
       IN IF iteration >= max_iterations
          THEN /\ pc' = "final"
               /\ UNCHANGED <<exc, function_calls, call_idx, function_responses>>
          ELSE IF x.exc # NoExc
          THEN /\ exc' = x.exc
               /\ pc' = "except"
               /\ UNCHANGED <<function_calls, call_idx, function_responses>>
          ELSE IF x.calls = <<>>
          THEN /\ pc' = "final"
               /\ UNCHANGED <<exc, function_calls, call_idx, function_responses>>
          ELSE /\ function_calls' = x.calls
               /\ call_idx' = 1
               /\ function_responses' = <<>>
               /\ pc' = "execute"
               /\ exc' = exc
    /\ UNCHANGED <<first_response, response, iteration, error_text, escaped,
                   events, sends, executed>>
    /\ UNCHANGED prior_failed
    /\ UNCHANGED registryVars
    /\ UNCHANGED restVars

\* _process_tool_calls, lines 210-232: one pass of the inner loop, and after
\* the last call of the round the resubmission and the ceiling test.
ExecuteFunctionCall ==
    /\ pc = "execute"
    /\ \E emit_raises \in BOOLEAN, outcome \in OutcomesOf(function_calls[call_idx]) :
         LET fc == function_calls[call_idx]
             x == ExecuteFunctionCallResult(fc, emit_raises, outcome)
         IN /\ events' = Append(events, Event("tool_call", <<fc>>, emit_raises))
            /\ executed' = IF x.invoked
                           THEN Append(executed, [name |-> fc, owner |-> tool_function_map[fc],
                                                   raised |-> outcome = "raise",
                                                   result |-> IF outcome = "raise" THEN ""
                                                              ELSE outcome])
                           ELSE executed
            /\ IF x.exc # NoExc
               THEN /\ exc' = x.exc
                    /\ error_text' = <<"Tool execution failed: ">> \o x.exc.msg
                    /\ pc' = "emit_error"
                    /\ UNCHANGED <<response, iteration, call_idx, function_responses, sends>>
               ELSE IF call_idx < Len(function_calls)
               THEN /\ function_responses' = Append(function_responses, [name |-> fc, response |-> x.result])
                    /\ call_idx' = call_idx + 1
                    /\ pc' = "execute"
                    /\ UNCHANGED <<exc, error_text, response, iteration, sends>>
               ELSE /\ function_responses' = Append(function_responses, [name |-> fc, response |-> x.result])
                    /\ call_idx' = call_idx
                    /\ \/ \E e \in ProviderExceptions :
                            /\ sends' = Append(sends, [input |-> "results",
                                                      n |-> Len(function_responses'),
                                                      round |-> iteration + 1, raised |-> TRUE])
                            /\ exc' = e
                            /\ error_text' = <<"Error sending function responses: ">> \o e.msg
                            /\ pc' = "emit_error"
                            /\ UNCHANGED <<response, iteration>>
                       \/ \E r \in Responses :
                            /\ sends' = Append(sends, [input |-> "results",
                                                      n |-> Len(function_responses'),
                                                      round |-> iteration + 1, raised |-> FALSE])
                            /\ response' = r
                            /\ exc' = exc
                            /\ IF iteration = max_iterations - 1
                               THEN /\ error_text' = <<"Tool-use loop exceeded maximum iterations">>
                                    /\ pc' = "emit_error"
                                    /\ iteration' = iteration
                               ELSE /\ iteration' = iteration + 1
                                    /\ pc' = "check"
                                    /\ error_text' = error_text
    /\ UNCHANGED <<first_response, function_calls, escaped>>
    /\ UNCHANGED prior_failed
    /\ UNCHANGED registryVars
    /\ UNCHANGED restVars

\* _process_tool_calls, lines 216, 225 and 231: emit the error and leave the
\* loop; an exception of the emit propagates to send_message.
EmitLoopError ==
    /\ pc = "emit_error"
    /\ \E emit_raises \in BOOLEAN :
         /\ events' = Append(events, Event("error", error_text, emit_raises))
         /\ IF emit_raises
            THEN /\ exc' = EmitException
                 /\ pc' = "except"
            ELSE /\ exc' = exc
                 /\ pc' = "final"
    /\ UNCHANGED <<first_response, response, iteration, function_calls, call_idx,
                   function_responses, error_text, escaped, sends, executed>>
    /\ UNCHANGED prior_failed
    /\ UNCHANGED registryVars
    /\ UNCHANGED restVars

\* send_message, lines 179-180: the final text of `response` is emitted.
EmitFinalText ==
    /\ pc = "final"
    /\ LET x == ExtractFinalText(first_response)
       IN IF x.exc # NoExc
          THEN /\ exc' = x.exc
               /\ pc' = "except"
               /\ events' = events
          ELSE \E emit_raises \in BOOLEAN :
                 /\ events' = Append(events,
                        Event("message",
                              IF x.text = <<>> THEN <<"(No text response)">> ELSE x.text,
                              emit_raises))
                 /\ IF emit_raises
                    THEN /\ exc' = EmitException
                         /\ pc' = "except"
                    ELSE /\ exc' = exc
                         /\ pc' = "finally"
    /\ UNCHANGED <<first_response, response, iteration, function_calls, call_idx,
                   function_responses, error_text, escaped, sends, executed>>
    /\ UNCHANGED prior_failed
    /\ UNCHANGED registryVars
    /\ UNCHANGED restVars

\* The except clause without a finally clause behind it: an exception of the
\* error emit leaves send_message at once.
HandleException_NoFinally ==
    /\ pc = "except"
    /\ \E emit_raises \in BOOLEAN :
         /\ events' = Append(events, Event("error", FormatErrorMessage(exc), emit_raises))
         /\ escaped' = emit_raises
         /\ exc' = IF emit_raises THEN EmitException ELSE exc
         /\ pc' = IF emit_raises THEN "raised" ELSE "finally"
    /\ UNCHANGED <<first_response, response, iteration, function_calls, call_idx,
                   function_responses, error_text, sends, executed>>
    /\ UNCHANGED prior_failed
    /\ UNCHANGED registryVars
    /\ UNCHANGED restVars

\* send_message, lines 182-185: the except clause.
HandleException ==
    /\ pc = "except"
    /\ \E emit_raises \in BOOLEAN :
         /\ events' = Append(events, Event("error", FormatErrorMessage(exc), emit_raises))
         /\ escaped' = emit_raises
         /\ exc' = IF emit_raises THEN EmitException ELSE exc
    /\ pc' = "finally"
    /\ UNCHANGED <<first_response, response, iteration, function_calls, call_idx,
                   function_responses, error_text, sends, executed>>
    /\ UNCHANGED prior_failed
    /\ UNCHANGED registryVars
    /\ UNCHANGED restVars

\* send_message, lines 186-190: the finally clause; afterwards the call
\* returns, or the exception the except clause raised leaves it.
EmitFinished ==
    /\ pc = "finally"
    /\ \E emit_raises \in BOOLEAN :
         events' = Append(events, Event("finished", <<>>, emit_raises))
    /\ pc' = IF escaped THEN "raised" ELSE "returned"
    /\ UNCHANGED <<first_response, response, iteration, function_calls, call_idx,
                   function_responses, exc, error_text, escaped, sends, executed>>
    /\ UNCHANGED prior_failed
    /\ UNCHANGED registryVars
    /\ UNCHANGED restVars

\* The worker is done; the bridge waits for the next prompt.
WorkerDone ==
    /\ pc \in {"returned", "raised"}
    /\ pc' = "idle"
    /\ first_response' = NoResponse
    /\ response' = NoResponse
    /\ iteration' = 0
    /\ function_calls' = <<>>
    /\ call_idx' = 0
    /\ function_responses' = <<>>
    /\ exc' = NoExc
    /\ error_text' = <<>>
    /\ escaped' = FALSE
    /\ events' = <<>>
    /\ sends' = <<>>
    /\ executed' = <<>>
    /\ prior_failed' = (prior_failed \/ \E i \in 1..Len(events) : events[i].sig = "error")
    /\ UNCHANGED registryVars
    /\ UNCHANGED restVars

InitBridge ==
    /\ pc = "idle"
    /\ first_response = NoResponse
    /\ response = NoResponse
    /\ iteration = 0
    /\ function_calls = <<>>
    /\ call_idx = 0
    /\ function_responses = <<>>
    /\ exc = NoExc
    /\ error_text = <<>>
    /\ escaped = FALSE
    /\ events = <<>>
    /\ sends = <<>>
    /\ executed = <<>>
    /\ prior_failed = FALSE

vars == <<registryVars, bridgeVars, restVars>>

\* The bridge and its worker, over plugin directories of at most one file.
Init == InitRegistry({d \in Directories : Len(d) <= 1}) /\ InitBridge /\ InitVault /\ InitHistory({Absent}, {MaxKept}) /\ InitFiles /\ InitChat /\ InitAdapter({"gemini"}, {"valid"}, {TRUE})

Next ==
    \/ BridgeInit
    \/ SendPrompt
    \/ CheckForTools
    \/ ExecuteFunctionCall
    \/ EmitLoopError
    \/ EmitFinalText
    \/ HandleException
    \/ EmitFinished
    \/ WorkerDone

Spec == Init /\ [][Next]_vars

\* The plugin manager and the construction of the bridge, over every plugin
\* directory.
InitPlugins == InitRegistry(Directories) /\ InitBridge /\ InitVault /\ InitHistory({Absent}, {MaxKept}) /\ InitFiles /\ InitChat /\ InitAdapter({"gemini"}, {"valid"}, {TRUE})

NextPlugins ==
    \/ LoadPlugins
    \/ ReloadPlugins
    \/ BridgeInit

SpecPlugins == InitPlugins /\ [][NextPlugins]_vars

\* The vault tools called directly, one call after another.
InitVaultTools == InitRegistry({<<>>}) /\ InitBridge /\ InitVault /\ InitHistory({Absent}, {MaxKept}) /\ InitFiles /\ InitChat /\ InitAdapter({"gemini"}, {"valid"}, {TRUE})

NextVault ==
    \/ ListFiles
    \/ ListAllFiles
    \/ ReadFile
    \/ CreateOrUpdateFile
    \/ DeleteFile

SpecVault == InitVaultTools /\ [][NextVault]_vars

\* One chat history: managers constructed over the history path, sessions
\* created, extended and deleted, every save in its steps.
InitHistoryStore == InitRegistry({<<>>}) /\ InitBridge /\ InitVault /\ InitHistory(InitialFiles, 1..MaxKept)
    /\ InitFiles /\ InitChat /\ InitAdapter({"gemini"}, {"valid"}, {TRUE})

NextHistory ==
    \/ NewManager
    \/ CreateSession
    \/ AddMessage
    \/ DeleteSession
    \/ SaveOpen
    \/ SaveWrite
    \/ SaveRename

SpecHistory == InitHistoryStore /\ [][NextHistory]_vars

\* Threads calling the load and save operations of the configuration and of
\* the chat history.
InitFileOps ==
    /\ InitRegistry({<<>>}) /\ InitBridge /\ InitVault /\ InitHistory({Absent}, {MaxKept})
    /\ InitFiles /\ InitChat /\ InitAdapter({"gemini"}, {"valid"}, {TRUE})

NextFiles ==
    \/ StartOp
    \/ Lock
    \/ Open
    \/ Close
    \/ Unlock

SpecFiles == InitFileOps /\ [][NextFiles]_vars

\* One chat view: the user at the input and the send button, the workers
\* and their finished events.
NextChat ==
    \/ EditText
    \/ ClickSend
    \/ KeyPressEvent
    \/ WorkerFinished
    \/ OnFinished

SpecChat == InitFileOps /\ [][NextChat]_vars

\* One AI client per configuration: the bridge sets it up and sends to it.
InitAdapters ==
    /\ InitRegistry({<<>>}) /\ InitBridge /\ InitVault /\ InitHistory({Absent}, {MaxKept})
    /\ InitFiles /\ InitChat
    /\ InitAdapter(ProviderNames, Credentials, BOOLEAN)

NextAdapter ==
    \/ SetupAiClient
    \/ ClientSendMessage

SpecAdapter == InitAdapters /\ [][NextAdapter]_vars

(***************************************************************************)
(* Properties                                                              *)
(***************************************************************************)

\* send_message has returned to the worker, or an exception has left it.
Done == pc \in {"returned", "raised"}

EventsOf(sig) == {i \in 1..Len(events) : events[i].sig = sig}

NoEmitRaised == \A i \in 1..Len(events) : ~events[i].raised
NoSendRaised == \A i \in 1..Len(sends) : ~sends[i].raised
NoToolRaised == \A i \in 1..Len(executed) : ~executed[i].raised
AllRegistered(calls) == \A i \in 1..Len(calls) : calls[i] \in DOMAIN tool_function_map

CeilingText == <<"Tool-use loop exceeded maximum iterations">>

\* C1: send_message ends within 10 rounds, and for a model whose every response
\* still requests (registered, non-raising) tools it ends by emitting the error
\* 'Tool-use loop exceeded maximum iterations'.
C1_CeilingErrorWhenModelKeepsRequesting ==
    /\ iteration < max_iterations
    /\ (/\ Done
        /\ CountCalls(response.parts) > 0
        /\ AllRegistered(CallsOf(response.parts))
        /\ NoToolRaised /\ NoEmitRaised /\ NoSendRaised)
       => \E i \in EventsOf("error") : events[i].text = CeilingText

\* C2: when the first response carries zero tool-call parts (and no emit
\* fails), send_message makes one provider send, executes no tool and emits
\* one message event, no error event and one finished event.
C2_NoToolCallsSingleRound ==
    (/\ Done
     /\ first_response # NoResponse
     /\ CountCalls(first_response.parts) = 0
     /\ NoEmitRaised)
    => /\ Len(sends) = 1
       /\ executed = <<>>
       /\ Cardinality(EventsOf("message")) = 1
       /\ EventsOf("error") = {}
       /\ Cardinality(EventsOf("finished")) = 1

\* C3: once the inner loop of a round with N >= 1 requests for registered
\* tools whose callables do not raise is over, N callables have been invoked
\* and one provider send has carried the N results together.
C3_AllResultsResubmittedTogether ==
    (/\ pc # "execute"
     /\ function_calls # <<>>
     /\ AllRegistered(function_calls)
     /\ NoToolRaised
     /\ \A i \in EventsOf("tool_call") : ~events[i].raised)
    => /\ Len(executed) >= Len(function_calls)
       /\ \E k \in 1..Len(sends) :
            sends[k].input = "results" /\ sends[k].n = Len(function_calls)

\* C4: on every path through send_message the finished signal is emitted
\* exactly once, as the last emit of the prompt: no emit follows a finished
\* emit, and when send_message is over the last emit is the finished one.
C4_FinishedOnceAndLast ==
    /\ \A i \in EventsOf("finished") : i = Len(events) /\ Done
    /\ Done => /\ events # <<>>
               /\ events[Len(events)].sig = "finished"
               /\ Cardinality(EventsOf("finished")) = 1

\* A prompt whose error emit failed and whose finished emit came last.
C4_Witness ==
    /\ Done
    /\ \E i \in EventsOf("error") : events[i].raised
    /\ events[Len(events)].sig = "finished"

\* C5: no exception ever leaves send_message.
C5_NoExceptionEscapes == pc # "raised"

\* The i-th emit announced a request whose name the lookup does not find.
UnknownToolRequested(i) ==
    /\ events[i].sig = "tool_call"
    /\ ~events[i].raised
    /\ events[i].text[1] \notin DOMAIN tool_function_map

\* C6: a request for a name that is not in tool_function_map aborts the round:
\* the inner loop goes on to no other request (the request is neither skipped
\* nor retried), error.emit is called with the text naming the unknown tool,
\* no result of the round is sent to the provider, and finished is emitted.
C6_UnknownToolAbortsRound ==
    \A i \in 1..Len(events) : UnknownToolRequested(i) =>
        /\ pc \notin {"execute", "check"}
        /\ \A j \in (i + 1)..Len(events) : events[j].sig # "tool_call"
        /\ \A j \in 1..Len(executed) : executed[j].name # events[i].text[1]
        /\ \A k \in 1..Len(sends) :
             ~(sends[k].input = "results" /\ sends[k].round = iteration + 1)
        /\ pc # "emit_error" =>
             /\ i < Len(events)
             /\ events[i + 1].sig = "error"
             /\ events[i + 1].text =
                  <<"Tool execution failed: ", "Unknown tool function requested: ",
                    events[i].text[1]>>
        /\ Done => EventsOf("finished") # {}

\* A finished prompt whose round of several requests began with a request for
\* an unknown tool, reported by an error emit that did not fail.
C6_Witness ==
    /\ Done
    /\ \E i \in 1..Len(events) : UnknownToolRequested(i) /\ ~events[i + 1].raised
    /\ Len(function_calls) > 1

\* C7: extracting the tool calls and the final text of a response never
\* raises, and a response without candidates, content or parts gives no tool
\* call and the empty text.
C7_ExtractionNeverRaises ==
    \A r \in {first_response, response} : r # NoResponse =>
        /\ ExtractFunctionCalls(r).exc = NoExc
        /\ ExtractFinalText(r).exc = NoExc
        /\ r.shape # "parts" =>
             /\ ExtractFunctionCalls(r).calls = <<>>
             /\ ExtractFinalText(r).text = <<>>

NoDuplicateNames(fs) == \A i, j \in 1..Len(fs) : fs[i].name = fs[j].name => i = j

\* C8: neither get_all_tools() nor the bridge's tool_functions ever holds two
\* tools of the same name.
C8_ToolNamesUnique ==
    /\ NoDuplicateNames(GetAllTools(tools))
    /\ NoDuplicateNames(tool_functions)

\* The owner of the first tool named n in the list fs.
FirstRegistrant(fs, n) ==
    fs[CHOOSE i \in 1..Len(fs) :
          fs[i].name = n /\ \A j \in 1..(i - 1) : fs[j].name # n].owner

\* C9: the first registrant of a name wins: every callable the loop invokes
\* for a requested name is the one that was registered first under that name
\* in tool_functions.
C9_FirstRegistrantWins ==
    \A i \in 1..Len(executed) :
        executed[i].owner = FirstRegistrant(tool_functions, executed[i].name)

\* File i of the directory loads and gives a plugin instance.
Instantiates(i) == plugin_dir[i].kind # "broken"

\* The first file whose instance declares the plugin name n.
FirstDeclaring(n) ==
    CHOOSE i \in 1..Len(plugin_dir) :
        /\ Instantiates(i) /\ plugin_dir[i].name = n
        /\ \A j \in 1..(i - 1) : ~(Instantiates(j) /\ plugin_dir[j].name = n)

\* C10: a plugin file declaring an already registered name is skipped: the
\* plugins map holds the first instance of each name, every tool of the tool
\* list comes from such a first instance, and the list of loaded names
\* reports only first instances, each once.
C10_DuplicatePluginSkipped ==
    /\ \A n \in DOMAIN plugins : plugins[n] = FirstDeclaring(n)
    /\ \A k \in 1..Len(tools) :
         tools[k].owner = FirstDeclaring(plugin_dir[tools[k].owner].name)
    /\ \A a, b \in 1..Len(loaded_plugins) :
         loaded_plugins[a] = loaded_plugins[b] => a = b
    /\ Len(loaded_plugins) <= Cardinality(DOMAIN plugins)

\* The directory was loaded and holds a later file that declares tools under
\* the plugin name of an earlier file.
C10_Witness ==
    /\ loads >= 1
    /\ \E i, j \in 1..Len(plugin_dir) :
         /\ i < j
         /\ Instantiates(i)
         /\ plugin_dir[j].kind = "ok"
         /\ plugin_dir[i].name = plugin_dir[j].name
         /\ plugin_dir[j].tools # <<>>

\* What load_plugins gives on a manager that has registered nothing yet.
FreshLoad == LoadPluginsResult(EmptyMap, <<>>, plugin_dir)

\* C11: once the directory has been loaded, whatever sequence of load_plugins
\* and reload_plugins calls follows, the registered plugins and the tool list
\* are those of one fresh load of the directory: a reload leaves nothing of
\* what was registered before, and repeated loads accumulate nothing.
C11_ReloadEqualsFreshLoad ==
    loads >= 1 => /\ plugins = FreshLoad.plugins
                  /\ tools = FreshLoad.tools

\* A second call, a reload, of a directory that provides tools.
C11_Witness ==
    /\ loads >= 2
    /\ tools # <<>>
    /\ loaded_plugins # <<>>

\* A request of the last tool call failed: a transport failure, or a status
\* raise_for_status rejects.
Failed(rq) == rq.reply.kind \in TransportFailures \/ RaiseForStatus(rq.reply)

SomeRequestFailed == \E i \in 1..Len(vault_requests) : Failed(vault_requests[i])

\* C12: whichever built-in vault tool is called and whichever way one of its
\* requests fails (timeout, connection failure, 401, 404, another HTTP status,
\* another transport error), the tool raises nothing and returns a string
\* that begins with 'ERROR:'.
C12_VaultToolFailureIsErrorString ==
    (vault_call # NoVaultCall /\ SomeRequestFailed)
        => /\ ~vault_result.raised
           /\ StartsWith(vault_result.value, "ERROR:")

\* C13: every _make_request raises ObsidianConnectionError for a timeout and
\* for a connection failure, ObsidianAuthError for a 401, ObsidianAPIError
\* carrying the status code for a 404 and for any other rejected status,
\* ObsidianError itself for any other transport exception, and nothing for a
\* response whose status is accepted.
C13_MakeRequestErrorClasses ==
    \A i \in 1..Len(vault_requests) :
        LET rq == vault_requests[i]
        IN /\ rq.reply.kind \in {"Timeout", "ConnectionError"}
                => rq.exc.cls = "ObsidianConnectionError"
           /\ rq.reply.kind = "RequestException" => rq.exc.cls = "ObsidianError"
           /\ (rq.reply.kind = "response" /\ rq.reply.status_code = 401)
                => rq.exc.cls = "ObsidianAuthError"
           /\ (rq.reply.kind = "response" /\ rq.reply.status_code \in {404, 500})
                => /\ rq.exc.cls = "ObsidianAPIError"
                   /\ rq.exc.status_code = rq.reply.status_code
           /\ (rq.reply.kind = "response" /\ rq.reply.status_code = 200)
                => rq.exc = NoObsidianExc

\* A list_all_files call whose root listing succeeded and whose folder
\* listing met a 500.
C13_Witness ==
    /\ vault_call.tool = "list_all_files"
    /\ \E i \in 1..Len(vault_requests) :
            /\ vault_requests[i].reply.status_code = 200
            /\ vault_requests[i].exc = NoObsidianExc
    /\ \E i \in 1..Len(vault_requests) :
            /\ vault_requests[i].reply.status_code = 500
            /\ vault_requests[i].exc.status_code = 500

\* The strings read_file and delete_file return for a file the vault does
\* not have.
NotFoundStrings ==
    {ReadFileResult(f, r).value : f \in VaultPaths, r \in {q \in Replies : q.status_code = 404}}
    \cup {DeleteFileResult(f, r).value :
              f \in VaultPaths, r \in {q \in Replies : q.status_code = 404}}

\* The built-in read_file or delete_file was called and returned its
\* not-found string.
ReturnedNotFound(i) ==
    /\ executed[i].owner = Obsidian
    /\ executed[i].name \in {"read_file", "delete_file"}
    /\ ~executed[i].raised
    /\ executed[i].result \in NotFoundStrings

\* C14: when delete_file or read_file meets a 404 it returns its not-found
\* string instead of raising, and the orchestrator goes on with the round:
\* once the worker is done, the results of the round, this string among them,
\* have been sent back to the provider.
C14_NotFoundIsResubmitted ==
    (Done /\ NoEmitRaised /\ NoToolRaised /\ AllRegistered(function_calls)
          /\ \E i \in 1..Len(executed) : ReturnedNotFound(i))
        => \E j \in 1..Len(sends) : sends[j].input = "results"

Unloadable(f) ==
    \/ f.kind \in {"garbage", "partial", "json_other"}
    \/ f.kind = "document" /\ LoadEntries(<<>>, f.sessions).error # NoError

\* C16: when load_history finds a file that does not parse or has the wrong
\* shape, the manager holds no sessions afterwards and the file has been
\* renamed aside, so that the history path is free for the next save.
C16_BadFileRenamedAside ==
    (hist_pc = "loaded" /\ Unloadable(loaded_from))
        => /\ sessions = <<>>
           /\ HistoryPath \notin DOMAIN disk
           /\ \E q \in DOMAIN disk : q # TempPath /\ disk[q] = loaded_from

\* C17: from the moment save_history has been entered the manager holds at
\* most max_sessions sessions, all of them among those it held before, and
\* none of those it dropped was updated later than one it kept.
C17_KeepsMostRecent ==
    hist_pc \in {"open", "write", "rename", "saved"}
        => /\ Len(sessions) <= max_sessions
           /\ Len(sessions) = (IF Len(presave) < max_sessions THEN Len(presave)
                                ELSE max_sessions)
           /\ \A i \in 1..Len(sessions) : \E k \in 1..Len(presave) : presave[k] = sessions[i]
           /\ \A k \in 1..Len(presave) :
                 (\A i \in 1..Len(sessions) : sessions[i] # presave[k])
                     => \A i \in 1..Len(sessions) :
                            sessions[i].updated_at >= presave[k].updated_at

\* A save has dropped sessions, one of them as recent as one it kept.
C17_Witness ==
    /\ hist_pc = "saved"
    /\ Len(presave) > Len(sessions)
    /\ \E k \in 1..Len(presave) :
          /\ \A i \in 1..Len(sessions) : sessions[i] # presave[k]
          /\ \E i \in 1..Len(sessions) : sessions[i].updated_at = presave[k].updated_at

\* C18: the history path never holds part of a document, and every step of
\* a save either leaves the history file as it is or puts the complete new
\* document in its place.
C18_HistoryWriteAtomic ==
    /\ [](Content(disk, HistoryPath).kind # "partial")
    /\ [][(hist_pc \in {"open", "write", "rename"} /\ hist_pc' \in {"write", "rename", "saved"})
            => \/ Content(disk', HistoryPath) = Content(disk, HistoryPath)
               \/ Content(disk', HistoryPath) = File("document", data)]_vars

\* A save was given up in the middle of its writes: the temp file holds part
\* of the new document, the history file the document of an earlier save.
C18_Witness ==
    /\ hist_pc = "saved"
    /\ Content(disk, TempPath).kind = "partial"
    /\ Content(disk, TempPath).sessions # <<>>
    /\ last_saved.valid
    /\ Content(disk, HistoryPath) = File("document", [i \in 1..Len(last_saved.sessions) |->
                                        ChatSessionToDict(last_saved.sessions[i])])

\* The thread has its file open.
InFile(t) == thread_pc[t] = "io"

\* C19: a thread that has the configuration file or the history file open
\* holds a mutex, and no two threads have the same file open at the same
\* time.
C19_FileOpsMutuallyExclusive ==
    /\ \A t \in Threads : InFile(t) => \E m \in DOMAIN mutex : mutex[m] = t
    /\ \A t, u \in Threads :
          (t # u /\ InFile(t) /\ InFile(u)) => FileOf(thread_op[t]) # FileOf(thread_op[u])

\* The workers of the chat view whose finished event has not been handled.
InFlight == {i \in 1..Len(workers) : workers[i] # "handled"}

\* C20: a chat view has at most one worker in flight: from the moment
\* send_message has started a worker until on_finished has handled its
\* finished event, neither the send button nor the keyboard shortcut starts
\* another.
C20_OneWorkerInFlight == Cardinality(InFlight) <= 1

\* The session state the adapter of provider p sends with: the chat handle
\* of the stateful adapter, the list of a stateless one.
HasSession(p) == IF p \in Stateless THEN messages.exists ELSE chat # None

\* The send raised because the adapter lacks an attribute.
FailedForLack(s) == s.exc.cls = "AttributeError"

\* C21: for each of the eight providers, once _setup_ai_client has succeeded
\* the adapter has the session state its send_message uses (the chat handle,
\* or the message list), and no send fails for lack of it.
C21_SessionExistsAfterInitialize ==
    (setup = "ready" /\ ai_provider \in Providers) =>
        /\ HasSession(ai_provider)
        /\ \A i \in 1..Len(send_log) : ~FailedForLack(send_log[i])

\* The provider takes an API key.
TakesCredential(p) == p \in Providers \ {"ollama"}

\* C22: for every supported provider, setting up the client with a missing
\* or rejected credential, or without the client library, fails; a failed
\* set-up raises GeminiAuthError, leaves no chat handle in the adapter and
\* no send is ever made on it.
C22_InitializeFailureIsAuthError ==
    /\ (/\ setup # "new"
        /\ ai_provider \in Providers
        /\ \/ ~library
           \/ TakesCredential(ai_provider) /\ credential # "valid")
       => setup = "failed"
    /\ setup = "failed" =>
         /\ setup_exc.cls = "GeminiAuthError"
         /\ chat = None
         /\ send_log = <<>>

\* The turn the adapter records for the input of a send.
IsUserTurn(t, input) == t.role \in {"user", "USER"} /\ t.content = input
IsAssistantTurn(t, text) == t.role \in {"assistant", "CHATBOT"} /\ t.content = text

\* ts is bs followed by the user turn of input.
WithUserTurn(ts, bs, input) ==
    /\ Len(ts) = Len(bs) + 1
    /\ SubSeq(ts, 1, Len(bs)) = bs
    /\ IsUserTurn(ts[Len(ts)], input)

\* C23: for every stateless adapter, each send transmits the whole list
\* with the new user (or tool-result) turn at its end, the list after a send
\* begins with the list before it, and after a send that returned a response
\* with content the list is the list before it, then that user turn, then
\* the assistant turn.
C23_WholeListSentAndAppended ==
    ai_provider \in Stateless =>
        \A i \in 1..Len(send_log) :
            LET s == send_log[i]
            IN /\ s.request.sent
               /\ WithUserTurn(s.request.turns, s.before.turns, s.input)
               /\ Len(s.after.turns) >= Len(s.before.turns)
               /\ SubSeq(s.after.turns, 1, Len(s.before.turns)) = s.before.turns
               /\ i > 1 => s.before = send_log[i - 1].after
               /\ (s.exc = NoExc /\ s.response # "empty") =>
                    /\ Len(s.after.turns) = Len(s.before.turns) + 2
                    /\ WithUserTurn(SubSeq(s.after.turns, 1, Len(s.before.turns) + 1),
                                    s.before.turns, s.input)
                    /\ IsAssistantTurn(s.after.turns[Len(s.after.turns)], s.response)

\* Every turn of ts at an odd place is a user turn and is followed by an
\* assistant turn.
Paired(ts) ==
    /\ Len(ts) % 2 = 0
    /\ \A k \in 1..Len(ts) :
          IF k % 2 = 1 THEN ts[k].role \in {"user", "USER"}
          ELSE ts[k].role \in {"assistant", "CHATBOT"}

\* C30: a send of a stateless adapter that raises leaves the adapter's list
\* as it was before the call, so that the send after a failed one transmits,
\* before its own new turn, a list in which every user turn is followed by
\* its assistant turn.
C30_FailedSendLeavesHistory ==
    ai_provider \in Stateless =>
        \A i \in 1..Len(send_log) :
            LET s == send_log[i]
            IN /\ s.exc # NoExc => s.after = s.before
               /\ (/\ s.request.sent
                   /\ \A j \in 1..(i - 1) :
                        send_log[j].exc # NoExc \/ send_log[j].response # "empty")
                  => Paired(SubSeq(s.request.turns, 1, Len(s.request.turns) - 1))

\* C24: after a prompt that ended in failure the bridge takes the next
\* prompt: send_message can be called again, it starts at the initial send
\* with the round counter at zero, the tool map is the one of construction
\* and no step of the prompt changes it, and when the prompt is over its own
\* finished event has been emitted, once and last.
C24_BridgeUsableAfterFailure ==
    /\ [](prior_failed =>
            /\ pc = "idle" => ENABLED SendPrompt
            /\ Len(sends) = 1 => (iteration = 0 /\ sends[1].input = "prompt")
            /\ tool_function_map = ToolFunctionMap(tool_functions)
            /\ Done => /\ Cardinality(EventsOf("finished")) = 1
                       /\ events[Len(events)].sig = "finished")
    /\ [][prior_failed => tool_function_map' = tool_function_map]_vars

\* The prompt after a failed one has failed as well, on a request for an
\* unknown tool, and is over with its finished event.
C24_Witness ==
    /\ prior_failed
    /\ Done
    /\ \E i \in 1..Len(events) : UnknownToolRequested(i)
    /\ events[Len(events)].sig = "finished"

AuthText == <<"Authentication Error: Please check your API keys in settings.">>
ConnectionText ==
    <<"Obsidian Connection Error: Is Obsidian running with the Local REST API plugin?">>
GenericPrefix == "An unexpected error occurred: "

\* The text the failure e is reported with, by its class.
TextByClass(e) ==
    IF e.cls \in {"GeminiAuthError", "ObsidianAuthError"} THEN AuthText
    ELSE IF e.cls = "ObsidianConnectionError" THEN ConnectionText
    ELSE <<GenericPrefix>> \o e.msg

\* Ten resubmissions of the prompt have returned.
CeilingReached ==
    Cardinality({k \in 1..Len(sends) : sends[k].input = "results" /\ ~sends[k].raised})
        = max_iterations

\* C25: the text of an error event is given by the class of the failure it
\* reports: the API-keys text for a provider or vault authentication error,
\* the is-Obsidian-running text for a vault connection error, the unexpected-
\* error text followed by the raw error text for any other exception; the
\* abort at the iteration ceiling has a text of its own, none of these three.
C25_ErrorTextByFailureClass ==
    /\ CeilingText \notin {AuthText, ConnectionText}
    /\ CeilingText[1] # GenericPrefix
    /\ (/\ events # <<>>
        /\ events[Len(events)].sig = "error"
        /\ ~events[Len(events)].raised)
       => IF events[Len(events)].text = CeilingText
          THEN CeilingReached
          ELSE events[Len(events)].text = TextByClass(exc)

\* C26: a prompt for which an error event has been emitted gets no message
\* event afterwards, and a message event is emitted only when the latest
\* response requests no tool.
C26_ErrorExcludesMessage ==
    /\ \A i \in EventsOf("error"), j \in EventsOf("message") : j < i
    /\ EventsOf("message") # {} => ExtractFunctionCalls(response).calls = <<>>

\* C27: in a prompt whose first response requested tools, a message event
\* carries the text of the response the last resubmission returned, not the
\* text of the first response.
C27_FinalTextFromLatestResponse ==
    \A j \in EventsOf("message") :
        ExtractFunctionCalls(first_response).calls # <<>> =>
            /\ Len(sends) >= 2
            /\ sends[Len(sends)].input = "results"
            /\ ~sends[Len(sends)].raised
            /\ events[j].text = (IF ExtractFinalText(response).text = <<>>
                                 THEN <<"(No text response)">>
                                 ELSE ExtractFinalText(response).text)

\* The tool calls of the rounds before the current one.
RECURSIVE ResultsSent(_)
ResultsSent(ss) ==
    IF ss = <<>> THEN 0
    ELSE (IF ss[1].input = "results" THEN ss[1].n ELSE 0) + ResultsSent(Tail(ss))

\* The current round was given up because its call_idx-th tool call failed.
RoundAborted ==
    /\ function_calls # <<>>
    /\ error_text # <<>>
    /\ error_text[1] = "Tool execution failed: "

\* C29: when the k-th of the N tool calls of a round has failed, calls 1..k-1
\* have been notified and executed without raising and their results are
\* kept, call k has been notified and its callable has run or not, calls
\* k+1..N are neither notified nor executed, and no result of the round has
\* been sent to the provider.
C29_AbortedRoundNotRolledBack ==
    RoundAborted =>
        LET k == call_idx
            before == ResultsSent(sends)
            ran == Len(executed) - before
        IN /\ Cardinality(EventsOf("tool_call")) = before + k
           /\ ran \in {k - 1, k}
           /\ \A j \in 1..ran : executed[before + j].name = function_calls[j]
           /\ \A j \in 1..(k - 1) : ~executed[before + j].raised
           /\ Len(function_responses) = k - 1
           /\ \A j \in 1..(k - 1) : function_responses[j].name = function_calls[j]
           /\ \A n \in 1..Len(sends) :
                ~(sends[n].input = "results" /\ sends[n].round = iteration + 1)

\* A round of two requests was given up at the first: its callable had run
\* when the failure was raised, the second request was neither notified nor
\* executed, and the prompt is over.
C29_Witness ==
    /\ RoundAborted
    /\ Done
    /\ Len(function_calls) = 2
    /\ call_idx = 1
    /\ Len(executed) = 1
    /\ Cardinality(EventsOf("tool_call")) = 1
    /\ sends[Len(sends)].input = "prompt"

\* The error of the iteration ceiling has been emitted.
CeilingEmitted == \E i \in EventsOf("error") : events[i].text = CeilingText

\* C28: the provider is sent to at most eleven times per prompt and at most
\* ten rounds of tools are executed; the error of the iteration ceiling is
\* emitted when, and only when, the tenth resubmission has returned.
C28_AtMostElevenSends ==
    /\ Len(sends) <= max_iterations + 1
    /\ iteration < max_iterations
    /\ Cardinality({k \in 1..Len(sends) : sends[k].input = "results"}) <= max_iterations
    /\ CeilingEmitted => CeilingReached
    /\ (CeilingReached /\ pc # "emit_error") => CeilingEmitted

====
